---- MODULE Spec2Model ----
(***************************************************************************)
(* Voice intent resolution of the SensAI backend                           *)
(* (src/sensai-ai-main/src/api/routes/voice.py): the context analyzer, the *)
(* deterministic resolver, the remote resolver with its fallback, the      *)
(* action enhancer, the per-user memory store and the turn and command     *)
(* endpoints; and, at the end, the onboarding endpoint of                  *)
(* src/sensai-ai-main/src/api/db/voice.py with its keyword fallback.       *)
(*                                                                         *)
(* Encoding of Python values.  TLC compares strings only with strings and  *)
(* functions only with functions, so every position has one shape:         *)
(*   - a str the code searches (utterance, route) is a sequence of         *)
(*     one-character strings;                                              *)
(*   - a str built by an f-string (responseText, message) is the sequence  *)
(*     of its fragments, the empty str being << >>;                        *)
(*   - a tag (intent, page state, selector name, target) is a string;      *)
(*   - a dict is a function with string keys, {} being << >>;              *)
(*   - a list is a sequence;                                               *)
(*   - None is StrNone, SeqNone or DictNone by the shape of its position.  *)
(* A function that can raise returns either its value or Raised(e).        *)
(***************************************************************************)
EXTENDS Naturals, Sequences, FiniteSets, TLC

\* ------------------------------------------------------------------ bounds
\* The number of requests (turns and commands) one behaviour holds; they may
\* all be in flight at once.
MaxOps == 2

\* ------------------------------------------------------- Python encodings
StrNone == "<None>"
SeqNone == <<StrNone>>
DictNone == [None |-> TRUE]

Raised(e) == [raised |-> e]
IsRaised(x) == "raised" \in DOMAIN x

\* d.get(k, default)
Get(d, k, default) == IF k \in DOMAIN d THEN d[k] ELSE default

\* {**a, **b}, and a.update(b): the keys of both, b's value where both have one
Merge(a, b) == [k \in DOMAIN a \cup DOMAIN b |-> IF k \in DOMAIN b THEN b[k] ELSE a[k]]

\* str.lower() on the letters that occur
UPPER == <<"A","B","C","D","E","F","G","H","I","J","K","L","M","N","O","P","Q","R","S","T","U","V","W","X","Y","Z">>
LOWER == <<"a","b","c","d","e","f","g","h","i","j","k","l","m","n","o","p","q","r","s","t","u","v","w","x","y","z">>
LowerChar(c) == IF \E i \in DOMAIN UPPER : UPPER[i] = c
                  THEN LOWER[CHOOSE i \in DOMAIN UPPER : UPPER[i] = c]
                  ELSE c
Lower(s) == [i \in DOMAIN s |-> LowerChar(s[i])]

\* `phrase in text` on str: phrase occurs as a contiguous run of characters
Contains(text, phrase) ==
    \E i \in 0..Len(text) :
        /\ i + Len(phrase) <= Len(text)
        /\ \A j \in 1..Len(phrase) : text[i + j] = phrase[j]

\* any(phrase in text for phrase in phrases)
AnyPhraseIn(phrases, text) == \E p \in DOMAIN phrases : Contains(text, phrases[p])

\* ', '.join(items) as fragments
RECURSIVE Join(_)
Join(items) == IF Len(items) = 0 THEN << >>
               ELSE IF Len(items) = 1 THEN <<items[1]>>
               ELSE <<items[1], ", ">> \o Join(Tail(items))

\* items[:n]
Take(items, n) == SubSeq(items, 1, IF Len(items) < n THEN Len(items) ELSE n)

\* str(x) inside an f-string, for a str-or-None value
Render(x) == IF x = StrNone THEN "None" ELSE x

\* a str is empty: no fragment holds a character
IsEmptyText(t) == \A i \in DOMAIN t : t[i] = ""

\* ----------------------------------------------------------- ROUTE_MAPPING
R_ROOT == <<"/">>
R_HOME == <<"/", "h", "o", "m", "e">>
R_SIGNUP == <<"/", "s", "i", "g", "n", "u", "p">>
R_LOGIN == <<"/", "l", "o", "g", "i", "n">>
R_COURSE == <<"/", "c", "o", "u", "r", "s", "e", "/">>
R_ADMIN == <<"/", "s", "c", "h", "o", "o", "l", "/", "a", "d", "m", "i", "n">>

ROUTE_MAPPING ==
    [ home |->
        [ route |-> R_ROOT,
          context |-> "Home page with course overview",
          selectors |->
            [ create_course_btn |-> "button:contains('Create course')",
              course_cards |-> "[class*='course']",
              voice_button |-> "button[title*='Voice']",
              teaching_tab |-> "button:contains('Created by you')",
              learning_tab |-> "button:contains('Enrolled courses')" ],
          capabilities |-> <<"create_course", "browse_courses", "switch_tabs", "voice_guide">>,
          next_actions |->
            [ no_courses |-> "create first course or browse available courses",
              has_courses |-> "view course details, create new course, or manage existing ones",
              teaching_mode |-> "create new course or manage existing courses",
              learning_mode |-> "browse and join new courses" ] ],
      signup |->
        [ route |-> R_SIGNUP,
          context |-> "Account creation and registration",
          selectors |->
            [ email_field |-> "input[type='email']",
              password_field |-> "input[type='password']",
              confirm_password |-> "input[name*='confirm']",
              signup_button |-> "button[type='submit']",
              login_link |-> "a[href*='login']" ],
          capabilities |-> <<"fill_form", "submit_registration", "validate_inputs">>,
          next_actions |->
            [ form_empty |-> "fill in email and password to create account",
              form_partial |-> "complete remaining required fields",
              form_complete |-> "submit registration to create account" ] ],
      login |->
        [ route |-> R_LOGIN,
          context |-> "User authentication and login",
          selectors |->
            [ email_field |-> "input[type='email']",
              password_field |-> "input[type='password']",
              login_button |-> "button[type='submit']",
              signup_link |-> "a[href*='signup']",
              forgot_password |-> "a[href*='forgot']" ],
          capabilities |-> <<"authenticate", "navigate_to_signup", "reset_password">>,
          next_actions |->
            [ not_registered |-> "create new account or recover existing account",
              forgot_password |-> "use password reset option",
              ready_to_login |-> "enter credentials and sign in" ] ],
      course_detail |->
        [ route |-> R_COURSE,
          context |-> "Individual course page with tasks and content",
          selectors |->
            [ join_button |-> "button:contains('Join')",
              task_list |-> "[class*='task']",
              submit_button |-> "button:contains('Submit')",
              course_nav |-> "[class*='nav']" ],
          capabilities |-> <<"join_course", "view_tasks", "submit_assignments", "navigate_content">>,
          next_actions |->
            [ not_enrolled |-> "join course to access content and assignments",
              enrolled |-> "view tasks, submit assignments, or access course materials",
              task_pending |-> "complete and submit pending assignments" ] ],
      admin_dashboard |->
        [ route |-> R_ADMIN,
          context |-> "Administrative dashboard for course management",
          selectors |->
            [ create_course_btn |-> "button:contains('Create')",
              course_list |-> "[class*='course']",
              student_list |-> "[class*='student']",
              analytics |-> "[class*='analytics']" ],
          capabilities |-> <<"create_course", "manage_courses", "view_analytics", "manage_students">>,
          next_actions |->
            [ no_courses |-> "create your first course to get started",
              has_courses |-> "manage existing courses or create new ones",
              view_analytics |-> "check course performance and student progress" ] ] ]

\* ---------------------------------------------------- analyze_page_context
\* A page signal that is a JSON number n is Num(n); JSON null is DictNone and
\* a JSON string is JStr.
Num(n) == [num |-> n]
JStr == [str |-> TRUE]
IsNum(v) == "num" \in DOMAIN v

\* The course pattern written without its closing slash.
RouteKey_course_without_slash(current_route) ==
    IF current_route = SeqNone \/ current_route = << >> THEN "home"
    ELSE IF current_route = R_ROOT \/ current_route = R_HOME THEN "home"
    ELSE IF Contains(current_route, R_SIGNUP) THEN "signup"
    ELSE IF Contains(current_route, R_LOGIN) THEN "login"
    ELSE IF Contains(current_route, <<"/", "c", "o", "u", "r", "s", "e">>) THEN "course_detail"
    ELSE IF Contains(current_route, R_ADMIN) THEN "admin_dashboard"
    ELSE "home"

\* if current_route: ... elif "/signup" in current_route: ...
RouteKey(current_route) ==
    IF current_route = SeqNone \/ current_route = << >> THEN "home"
    ELSE IF current_route = R_ROOT \/ current_route = R_HOME THEN "home"
    ELSE IF Contains(current_route, R_SIGNUP) THEN "signup"
    ELSE IF Contains(current_route, R_LOGIN) THEN "login"
    ELSE IF Contains(current_route, R_COURSE) THEN "course_detail"
    ELSE IF Contains(current_route, R_ADMIN) THEN "admin_dashboard"
    ELSE "home"

\* The page state, available actions and recommended action of the decision
\* tables; Raised("TypeError") where `form_filled < 100` compares a value that
\* is no number.
PageState(route_key, page_context) ==
    LET unknown == [page_state |-> "unknown", available_actions |-> << >>,
                    recommended_action |-> StrNone]
    IN
    IF page_context = DictNone \/ page_context = << >> THEN unknown
    ELSE IF route_key = "home" THEN
        LET has_courses == Get(page_context, "hasCourses", FALSE)
            has_teaching == Get(page_context, "hasTeaching", FALSE)
            has_learning == Get(page_context, "hasLearning", FALSE)
        IN
        IF ~has_courses THEN
            [page_state |-> "no_courses",
             available_actions |-> <<"create_course", "browse_courses", "get_help">>,
             recommended_action |-> "create your first course to get started"]
        ELSE IF has_teaching /\ has_learning THEN
            [page_state |-> "has_both",
             available_actions |-> <<"create_course", "view_courses", "manage_courses">>,
             recommended_action |-> "manage your existing courses or create a new one"]
        ELSE IF has_teaching THEN
            [page_state |-> "teaching_mode",
             available_actions |-> <<"create_course", "manage_courses", "view_analytics">>,
             recommended_action |-> "create a new course or manage existing ones"]
        ELSE
            [page_state |-> "learning_mode",
             available_actions |-> <<"browse_courses", "join_course", "view_progress">>,
             recommended_action |-> "browse and join new courses"]
    ELSE IF route_key = "signup" THEN
        LET form_filled == Get(page_context, "formFilled", Num(0))
        IN
        IF form_filled = Num(0) THEN
            [page_state |-> "form_empty", available_actions |-> << >>,
             recommended_action |-> "fill in your email and password to create an account"]
        ELSE IF ~IsNum(form_filled) THEN Raised("TypeError")
        ELSE IF form_filled.num < 100 THEN
            [page_state |-> "form_partial", available_actions |-> << >>,
             recommended_action |-> "complete the remaining required fields"]
        ELSE
            [page_state |-> "form_complete", available_actions |-> << >>,
             recommended_action |-> "submit the form to create your account"]
    ELSE IF route_key = "course_detail" THEN
        LET is_enrolled == Get(page_context, "isEnrolled", FALSE)
            has_tasks == Get(page_context, "hasTasks", FALSE)
        IN
        IF ~is_enrolled THEN
            [page_state |-> "not_enrolled", available_actions |-> << >>,
             recommended_action |-> "join this course to access content and assignments"]
        ELSE IF has_tasks THEN
            [page_state |-> "has_tasks", available_actions |-> << >>,
             recommended_action |-> "view and complete your assignments"]
        ELSE
            [page_state |-> "enrolled", available_actions |-> << >>,
             recommended_action |-> "explore course content and materials"]
    ELSE unknown

analyze_page_context(current_route, page_context) ==
    LET route_key == RouteKey(current_route)
        route_info == ROUTE_MAPPING[route_key]
        st == PageState(route_key, page_context)
    IN
    IF IsRaised(st) THEN st
    ELSE
        [route_key |-> route_key,
         route_info |-> route_info,
         page_state |-> st.page_state,
         available_actions |-> st.available_actions,
         recommended_action |-> st.recommended_action,
         context_analysis |->
            [current_capabilities |-> route_info.capabilities,
             suggested_next_steps |->
                 Get(route_info.next_actions, st.page_state, st.recommended_action),
             available_selectors |-> route_info.selectors]]

\* ------------------------------------------------------------ VoiceAction
\* The pydantic model VoiceAction: type is a required str, the rest optional.
VoiceAction(type, target, message, data) ==
    IF type = StrNone THEN Raised("ValidationError")
    ELSE [type |-> type, target |-> target, message |-> message, data |-> data]

\* --------------------------------------------- enhance_action_with_context
\* `action` is the reply's JSON value: a dict, {} or null, or (JStr) a string.
enhance_action_with_context(action, context_analysis, intent) ==
    IF action = DictNone \/ action = << >> THEN DictNone
    ELSE IF action = JStr THEN Raised("AttributeError")
    ELSE
        LET action_type == Get(action, "type", "speak")
            selectors == context_analysis.context_analysis.available_selectors
            target == Get(action, "target", StrNone)
            mapped ==
                IF action_type = "highlight" /\ target # StrNone /\ target # ""
                THEN IF target = "create_course_btn" /\ "create_course_btn" \in DOMAIN selectors
                        THEN selectors["create_course_btn"]
                     ELSE IF target = "course_cards" /\ "course_cards" \in DOMAIN selectors
                        THEN selectors["course_cards"]
                     ELSE IF target = "email_field" /\ "email_field" \in DOMAIN selectors
                        THEN selectors["email_field"]
                     ELSE target
                ELSE target
        IN VoiceAction(action_type, mapped, Get(action, "message", SeqNone),
                       Get(action, "data", DictNone))

\* --------------------------------------------- process_intent_with_context
STOP_PHRASES ==
    << <<"s", "t", "o", "p">>,
       <<"q", "u", "i", "t">>,
       <<"c", "a", "n", "c", "e", "l">>,
       <<"e", "x", "i", "t">> >>
HELP_PHRASES ==
    << <<"h", "e", "l", "p">>,
       <<"w", "h", "a", "t", " ", "c", "a", "n", " ", "i", " ", "d", "o">>,
       <<"g", "u", "i", "d", "e", " ", "m", "e">>,
       <<"w", "h", "a", "t", " ", "n", "o", "w">> >>
CREATE_COURSE_PHRASES ==
    << <<"c", "r", "e", "a", "t", "e", " ", "c", "o", "u", "r", "s", "e">>,
       <<"n", "e", "w", " ", "c", "o", "u", "r", "s", "e">>,
       <<"m", "a", "k", "e", " ", "c", "o", "u", "r", "s", "e">>,
       <<"a", "d", "d", " ", "c", "o", "u", "r", "s", "e">> >>
BROWSE_COURSES_PHRASES ==
    << <<"j", "o", "i", "n", " ", "c", "o", "u", "r", "s", "e">>,
       <<"f", "i", "n", "d", " ", "c", "o", "u", "r", "s", "e">>,
       <<"b", "r", "o", "w", "s", "e", " ", "c", "o", "u", "r", "s", "e">>,
       <<"e", "n", "r", "o", "l", "l">>,
       <<"c", "o", "u", "r", "s", "e", "s">> >>
CREATE_ACCOUNT_PHRASES ==
    << <<"c", "r", "e", "a", "t", "e", " ", "a", "c", "c", "o", "u", "n", "t">>,
       <<"s", "i", "g", "n", " ", "u", "p">>,
       <<"r", "e", "g", "i", "s", "t", "e", "r">>,
       <<"n", "e", "w", " ", "a", "c", "c", "o", "u", "n", "t">>,
       <<"g", "e", "t", " ", "s", "t", "a", "r", "t", "e", "d">> >>
CONFIRM_PHRASES ==
    << <<"y", "e", "s">>,
       <<"y", "e", "a", "h">>,
       <<"s", "u", "r", "e">>,
       <<"o", "k", "a", "y">>,
       <<"c", "o", "n", "f", "i", "r", "m">>,
       <<"d", "o", " ", "i", "t">> >>

\* The branches of process_intent_with_context, each on the analysed context.
StopResult(memory) ==
    [intent |-> "stop",
     slots |-> << >>,
     responseText |-> <<"Voice assistant stopped. You can restart by clicking the microphone button.">>,
     memory |-> Merge(memory, [currentStep |-> "stopped"]),
     requiresConfirmation |-> FALSE]

HelpResult(memory, ca) ==
    LET recommended == ca.recommended_action
        available == Join(ca.available_actions)
    IN
    [intent |-> "help",
     slots |-> [context |-> ca.route_key],
     responseText |-> <<"You're on the ", ca.route_info.context, ". I recommend you ",
                        Render(recommended), ". You can also ">> \o available \o <<".">>,
     memory |-> Merge(memory, [lastContext |-> ca]),
     action |-> VoiceAction("speak", StrNone,
                            <<"Here's what you can do on this page: ">> \o available, DictNone),
     requiresConfirmation |-> FALSE]

CreateCourseResult(memory, ca) ==
    LET on_home == ca.route_key = "home"
        response_text ==
            IF on_home
            THEN IF ca.page_state = "no_courses"
                 THEN <<"Perfect! This is exactly what you need to get started. Let me highlight the create course button for you.">>
                 ELSE <<"I'll help you create a new course. Let me show you the create course button.">>
            ELSE <<"To create a course, let me take you to the home page where you can access the course creation tools.">>
        action ==
            IF on_home
            THEN IF ca.page_state = "no_courses"
                 THEN VoiceAction("highlight", "create_course_btn",
                                  <<"Click this button to create your first course">>, DictNone)
                 ELSE VoiceAction("highlight", "create_course_btn",
                                  <<"Click here to create a new course">>, DictNone)
            ELSE VoiceAction("navigate", "/",
                             <<"Navigating to home page for course creation">>, DictNone)
    IN
    [intent |-> "create_course",
     slots |-> [action |-> "create_course", context |-> ca.route_key],
     responseText |-> response_text,
     memory |-> Merge(memory, [currentStep |-> "create_course", lastContext |-> ca]),
     action |-> action,
     requiresConfirmation |-> FALSE]

BrowseCoursesResult(memory, ca) ==
    LET on_home == ca.route_key = "home"
        response_text ==
            IF on_home
            THEN IF ca.page_state = "no_courses"
                 THEN <<"It looks like there aren't any courses available yet. Would you like to create your first course instead?">>
                 ELSE <<"Great! I can see the available courses here. Let me highlight them for you.">>
            ELSE <<"Let me take you to the home page where you can browse and join courses.">>
        action ==
            IF on_home
            THEN IF ca.page_state = "no_courses"
                 THEN VoiceAction("highlight", "create_course_btn",
                                  <<"Try creating a course first">>, DictNone)
                 ELSE VoiceAction("highlight", "course_cards",
                                  <<"Here are the available courses">>, DictNone)
            ELSE VoiceAction("navigate", "/", <<"Navigating to course browser">>, DictNone)
    IN
    [intent |-> "browse_courses",
     slots |-> [action |-> "browse_courses", context |-> ca.route_key],
     responseText |-> response_text,
     memory |-> Merge(memory, [currentStep |-> "browse_courses", lastContext |-> ca]),
     action |-> action,
     requiresConfirmation |-> FALSE]

\* The signup form's first field is pointed at on every page.
CreateAccountResult_form_on_every_page(memory, ca) ==
    [intent |-> "create_account",
     slots |-> [action |-> "signup", context |-> ca.route_key],
     responseText |-> <<"Perfect! You're on the signup page. Let me guide you through creating your account. First, click on the email field.">>,
     memory |-> Merge(memory, [currentStep |-> "create_account", lastContext |-> ca]),
     action |-> VoiceAction("highlight", "email_field",
                            <<"Start by entering your email address here">>, DictNone),
     requiresConfirmation |-> FALSE]

CreateAccountResult(memory, ca) ==
    LET on_signup == ca.route_key = "signup"
        response_text ==
            IF on_signup
            THEN IF ca.page_state = "form_empty"
                 THEN <<"Perfect! You're on the signup page. Let me guide you through creating your account. First, click on the email field.">>
                 ELSE IF ca.page_state = "form_partial"
                 THEN <<"I see you've started filling out the form. Let me help you complete the remaining fields.">>
                 ELSE <<"Your form looks complete! You can now submit it to create your account.">>
            ELSE <<"I'll take you to the signup page where you can create your account.">>
        action ==
            IF on_signup
            THEN IF ca.page_state = "form_empty"
                 THEN VoiceAction("highlight", "email_field",
                                  <<"Start by entering your email address here">>, DictNone)
                 ELSE IF ca.page_state = "form_partial"
                 THEN VoiceAction("highlight", "password_field",
                                  <<"Complete the form by filling this field">>, DictNone)
                 ELSE VoiceAction("highlight", "signup_button",
                                  <<"Click here to create your account">>, DictNone)
            ELSE VoiceAction("navigate", "/signup",
                             <<"Navigating to account creation">>, DictNone)
    IN
    [intent |-> "create_account",
     slots |-> [action |-> "signup", context |-> ca.route_key],
     responseText |-> response_text,
     memory |-> Merge(memory, [currentStep |-> "create_account", lastContext |-> ca]),
     action |-> action,
     requiresConfirmation |-> FALSE]

ConfirmResult(memory, ca) ==
    LET last_action == Get(memory, "lastSuggestedAction", ca.recommended_action)
    IN
    [intent |-> "confirm",
     slots |-> [confirmation |-> TRUE, context |-> ca.route_key],
     responseText |-> <<"Great! Let me help you ", Render(last_action), ".">>,
     memory |-> Merge(memory, [lastConfirmation |-> TRUE, confirmedAction |-> last_action]),
     requiresConfirmation |-> FALSE]

DefaultResult(utterance, memory, ca) ==
    LET recommended == ca.recommended_action
        available_actions == ca.available_actions
    IN
    [intent |-> "contextual_help",
     slots |-> [context |-> ca.route_key, page_state |-> ca.page_state],
     responseText |-> <<"I'm not sure what you want to do with '">> \o utterance
                      \o <<"', but based on where you are, I recommend you ",
                           Render(recommended), ". You can also say: ">>
                      \o Join(Take(available_actions, 3)) \o <<".">>,
     memory |-> Merge(memory, [lastContext |-> ca, lastUtterance |-> utterance]),
     action |-> VoiceAction("speak", StrNone,
                            <<"Try saying: ">> \o Join(Take(available_actions, 2)), DictNone),
     requiresConfirmation |-> FALSE]

process_intent_with_context(utterance, memory, current_route, page_context) ==
    LET utterance_lower == Lower(utterance)
        context_analysis == analyze_page_context(current_route, page_context)
    IN
    IF IsRaised(context_analysis) THEN context_analysis
    ELSE IF AnyPhraseIn(STOP_PHRASES, utterance_lower) THEN StopResult(memory)
    ELSE IF AnyPhraseIn(HELP_PHRASES, utterance_lower) THEN HelpResult(memory, context_analysis)
    ELSE IF AnyPhraseIn(CREATE_COURSE_PHRASES, utterance_lower)
        THEN CreateCourseResult(memory, context_analysis)
    ELSE IF AnyPhraseIn(BROWSE_COURSES_PHRASES, utterance_lower)
        THEN BrowseCoursesResult(memory, context_analysis)
    ELSE IF AnyPhraseIn(CREATE_ACCOUNT_PHRASES, utterance_lower)
        THEN CreateAccountResult(memory, context_analysis)
    ELSE IF AnyPhraseIn(CONFIRM_PHRASES, utterance_lower)
        THEN ConfirmResult(memory, context_analysis)
    ELSE DefaultResult(utterance, memory, context_analysis)

\* ----------------------------------------------- get_smart_openai_response
\* openai.api_key (os.getenv): None, "" or a key; `not openai.api_key`
KeyUnset(api_key) == api_key = StrNone \/ api_key = ""

\* What openai.ChatCompletion.acreate gives once it returns: it raises, or
\* message.content is a text.  A text is [json |-> FALSE] when it is no JSON,
\* or [json |-> TRUE, value |-> v] with v the value it denotes: an object
\* [object |-> fields] or [array |-> TRUE].
json_loads(text) ==
    IF text = DictNone THEN Raised("TypeError")
    ELSE IF ~text.json THEN Raised("JSONDecodeError")
    ELSE text.value

\* The reply's memory taken as the whole record, the incoming memory dropped.
SmartResultFromReply_memory_verbatim(parsed_response, memory, current_route, context_analysis, now) ==
    IF "object" \notin DOMAIN parsed_response THEN Raised("AttributeError")
    ELSE
        LET reply == parsed_response.object
            enhanced_action ==
                enhance_action_with_context(Get(reply, "action", << >>), context_analysis,
                                            Get(reply, "intent", "unknown"))
            reply_memory == Get(reply, "memory", << >>)
        IN
        IF IsRaised(enhanced_action) THEN enhanced_action
        ELSE IF reply_memory = DictNone THEN Raised("TypeError")
        ELSE
            [intent |-> Get(reply, "intent", "unknown"),
             slots |-> Get(reply, "slots", << >>),
             responseText |-> Get(reply, "responseText", <<"I'm here to help!">>),
             memory |-> Merge(reply_memory,
                              [lastRoute |-> current_route,
                               lastContext |-> context_analysis,
                               lastInteraction |-> now]),
             action |-> enhanced_action,
             requiresConfirmation |-> Get(reply, "requiresConfirmation", FALSE)]

\* The result built from a reply that parsed (lines 379-401); Raised where
\* .get meets a non-dict, VoiceAction rejects its type, or ** meets null.
SmartResultFromReply(parsed_response, memory, current_route, context_analysis, now) ==
    IF "object" \notin DOMAIN parsed_response THEN Raised("AttributeError")
    ELSE
        LET reply == parsed_response.object
            enhanced_action ==
                enhance_action_with_context(Get(reply, "action", << >>), context_analysis,
                                            Get(reply, "intent", "unknown"))
            reply_memory == Get(reply, "memory", << >>)
        IN
        IF IsRaised(enhanced_action) THEN enhanced_action
        ELSE IF reply_memory = DictNone THEN Raised("TypeError")
        ELSE
            [intent |-> Get(reply, "intent", "unknown"),
             slots |-> Get(reply, "slots", << >>),
             responseText |-> Get(reply, "responseText", <<"I'm here to help!">>),
             memory |-> Merge(Merge(memory, reply_memory),
                              [lastRoute |-> current_route,
                               lastContext |-> context_analysis,
                               lastInteraction |-> now]),
             action |-> enhanced_action,
             requiresConfirmation |-> Get(reply, "requiresConfirmation", FALSE)]

\* get_smart_openai_response answering an unparsable reply the way the older
\* get_openai_response did (lines 608-616): the raw text under intent unknown.
get_smart_openai_response_raw_text(utterance, memory, current_route, page_context, api_key, remote, now) ==
    LET local == process_intent_with_context(utterance, memory, current_route, page_context)
        context_analysis == analyze_page_context(current_route, page_context)
    IN
    IF KeyUnset(api_key) THEN local
    ELSE IF IsRaised(context_analysis) THEN local
    ELSE IF remote.kind = "raise" THEN local
    ELSE
        LET parsed_response == json_loads(remote.content)
        IN
        IF IsRaised(parsed_response)
        THEN [intent |-> "unknown", slots |-> << >>, responseText |-> <<"(the reply)">>,
              memory |-> memory, requiresConfirmation |-> FALSE]
        ELSE
            LET built == SmartResultFromReply(parsed_response, memory, current_route,
                                              context_analysis, now)
            IN IF IsRaised(built) THEN local ELSE built

\* `remote` is the outcome of the completion call, read only when the call is
\* made; `now` is datetime.now().isoformat() at that moment.
get_smart_openai_response(utterance, memory, current_route, page_context, api_key, remote, now) ==
    LET local == process_intent_with_context(utterance, memory, current_route, page_context)
        context_analysis == analyze_page_context(current_route, page_context)
    IN
    IF KeyUnset(api_key) THEN local
    ELSE IF IsRaised(context_analysis) THEN local
    ELSE IF remote.kind = "raise" THEN local
    ELSE
        LET parsed_response == json_loads(remote.content)
        IN
        IF IsRaised(parsed_response) THEN local
        ELSE
            LET built == SmartResultFromReply(parsed_response, memory, current_route,
                                              context_analysis, now)
            IN IF IsRaised(built) THEN local ELSE built

\* The completion call is reached: the key is set and nothing raised before it.
CallsRemote(api_key, current_route, page_context) ==
    /\ ~KeyUnset(api_key)
    /\ ~IsRaised(analyze_page_context(current_route, page_context))

\* ------------------------------------------------- memory and analytics store
\* json.dumps of a dict with str keys: the text is modelled by the set of its
\* key/value members; json.loads reads the dict back from them.
json_dumps(d) == {<<k, d[k]>> : k \in DOMAIN d}
json_loads_dict(text) == [k \in {m[1] : m \in text} |-> (CHOOSE m \in text : m[1] = k)[2]]
\* a NULL column
SqlNull == {<<StrNone, StrNone>>}

DEFAULT_MEMORY ==
    [currentStep |-> "welcome",
     onboardingProgress |-> << >>,
     lastResponse |-> "Hi! I'm your SensAI assistant. I can help you create an account, join a course, or submit your first task."]
DEFAULT_MEMORY_ON_ERROR ==
    [currentStep |-> "welcome",
     onboardingProgress |-> << >>,
     lastResponse |-> "Hi! I'm your SensAI assistant."]

\* `table` is voice_memory: user_id -> memory_data.  db_ok is FALSE when the
\* connection or the statement raises.
load_user_memory(table, user_id, db_ok) ==
    IF ~db_ok THEN DEFAULT_MEMORY_ON_ERROR
    ELSE IF user_id \in DOMAIN table THEN json_loads_dict(table[user_id])
    ELSE DEFAULT_MEMORY

\* save_user_memory without its try/except: the exception of the connection
\* or the statement leaves the call.
save_user_memory_raising(table, user_id, memory, db_ok) ==
    IF ~db_ok THEN Raised("OperationalError")
    ELSE [u \in DOMAIN table \cup {user_id} |->
              IF u = user_id THEN json_dumps(memory) ELSE table[u]]

\* save_user_memory writing field by field over the row it finds, instead of
\* replacing the row.
save_user_memory_field_by_field(table, user_id, memory, db_ok) ==
    IF ~db_ok THEN table
    ELSE [u \in DOMAIN table \cup {user_id} |->
              IF u # user_id THEN table[u]
              ELSE IF u \in DOMAIN table
                   THEN json_dumps(Merge(json_loads_dict(table[u]), memory))
                   ELSE json_dumps(memory)]

\* INSERT OR REPLACE of the user's row; the exception is printed, not raised.
save_user_memory(table, user_id, memory, db_ok) ==
    IF ~db_ok THEN table
    ELSE [u \in DOMAIN table \cup {user_id} |->
              IF u = user_id THEN json_dumps(memory) ELSE table[u]]

\* INSERT INTO voice_analytics; the exception is printed, not raised.
log_analytics_event(log, user_id, event_type, intent, slots, memory_snapshot, response_text, db_ok) ==
    IF ~db_ok THEN log
    ELSE Append(log,
                [user_id |-> user_id,
                 event_type |-> event_type,
                 intent |-> intent,
                 slots |-> IF slots = << >> THEN SqlNull ELSE json_dumps(slots),
                 memory_snapshot |-> IF memory_snapshot = << >> THEN SqlNull
                                     ELSE json_dumps(memory_snapshot),
                 response_text |-> response_text])

\* INSERT INTO voice_interactions, inside the endpoint's own try/except.
LogInteraction(log, user_id, utterance, ai_result, action, db_ok) ==
    IF ~db_ok THEN log
    ELSE Append(log,
                [session_uuid |-> user_id,
                 user_message |-> utterance,
                 ai_response |-> ai_result.responseText,
                 intent |-> ai_result.intent,
                 action_taken |-> json_dumps([action |-> action])])

\* ----------------------------------------------------- process_voice_intent
\* The user id left out of the key: every request works on the row "anonymous".
EffectiveUserId_one_row(userId) == "anonymous"

\* user_id = request.userId or "anonymous"
EffectiveUserId(userId) == IF userId = StrNone \/ userId = "" THEN "anonymous" ELSE userId

\* if request.memory: memory.update(request.memory)
MergeRequestMemory(memory, request_memory) == Merge(memory, request_memory)

\* The pydantic model VoiceIntentResponse: intent and responseText are
\* required str, slots and memory dicts.
VoiceIntentResponse(intent, slots, responseText, memory, action, requiresConfirmation) ==
    IF intent = StrNone \/ responseText = SeqNone \/ slots = DictNone
    THEN Raised("ValidationError")
    ELSE [intent |-> intent, slots |-> slots, responseText |-> responseText,
          memory |-> memory, action |-> action,
          requiresConfirmation |-> requiresConfirmation]

\* The except branch of the endpoint (lines 704-717)
ErrorResponse(request) ==
    [intent |-> "error",
     slots |-> << >>,
     responseText |-> <<"I'm sorry, I encountered an error. Please try again.">>,
     memory |-> request.memory,
     action |-> VoiceAction("speak", StrNone,
                            <<"I'm sorry, I encountered an error. Please try again.">>, DictNone),
     requiresConfirmation |-> FALSE]

\* updated_memory = ai_result.get("memory", memory)
UpdatedMemory(ai_result, memory) == Get(ai_result, "memory", memory)

\* The action of the response (lines 654-662): the resolver's, or the one made
\* up for the three intents when the resolver gave none.
ResponseAction(ai_result) ==
    LET action == Get(ai_result, "action", DictNone)
    IN
    IF action = DictNone /\ ai_result.intent \in {"create_course", "browse_courses", "create_account"}
    THEN IF ai_result.intent = "create_course"
            THEN VoiceAction("highlight", "create_course_btn", <<"Create a new course">>, DictNone)
         ELSE IF ai_result.intent = "browse_courses"
            THEN VoiceAction("navigate", "/", <<"Browse available courses">>, DictNone)
         ELSE VoiceAction("navigate", "/signup", <<"Create your account">>, DictNone)
    ELSE action

\* The response built after the save (lines 665-672), or Raised.
BuildResponse(ai_result, updated_memory) ==
    VoiceIntentResponse(ai_result.intent, ai_result.slots, ai_result.responseText,
                        updated_memory, ResponseAction(ai_result),
                        Get(ai_result, "requiresConfirmation", FALSE))

\* ---------------------------------------------------- process_voice_command
\* The command branch (lines 729-740): the response text and the memory.
CommandResult(command_raw, memory) ==
    LET command == Lower(command_raw)
    IN
    IF command = <<"s", "t", "o", "p">> THEN
        [command |-> command,
         responseText |-> <<"Voice assistant stopped. You can restart anytime.">>,
         memory |-> Merge(memory, [currentStep |-> "stopped"])]
    ELSE IF command = <<"r", "e", "p", "e", "a", "t">> THEN
        [command |-> command,
         responseText |-> <<Get(memory, "lastResponse", "I'm here to help you!")>>,
         memory |-> memory]
    ELSE IF command = <<"r", "e", "t", "r", "y">> THEN
        [command |-> command,
         responseText |-> <<"Let's try that again. What would you like to do?">>,
         memory |-> Merge(memory, [currentStep |-> "welcome"])]
    ELSE
        [command |-> command,
         responseText |-> <<"I didn't understand that command. Try 'stop', 'repeat', or 'retry'.">>,
         memory |-> memory]

\* ------------------------------------------------------------------ inputs
U_stop == <<"s", "t", "o", "p">>
U_STOP_please == <<"S", "T", "O", "P", " ", "p", "l", "e", "a", "s", "e">>
U_Help == <<"H", "e", "l", "p">>
U_create_course == <<"c", "r", "e", "a", "t", "e", " ", "c", "o", "u", "r", "s", "e">>
U_courses == <<"c", "o", "u", "r", "s", "e", "s">>
U_sign_up == <<"I", " ", "w", "a", "n", "t", " ", "t", "o", " ", "s", "i", "g", "n", " ", "u", "p">>
U_yes == <<"y", "e", "s">>
U_hello == <<"h", "e", "l", "l", "o">>
U_multi == <<"s", "i", "g", "n", " ", "u", "p", " ", "o", "r", " ", "c", "r", "e", "a", "t", "e", " ", "c", "o", "u", "r", "s", "e">>
U_empty == << >>
U_help_stop == <<"H", "E", "L", "P", " ", "m", "e", " ", "S", "t", "o", "p">>
U_course_signup == <<"C", "r", "e", "a", "t", "e", " ", "C", "o", "u", "r", "s", "e", " ", "o", "r", " ", "s", "i", "g", "n", " ", "u", "p">>
U_yes_courses == <<"Y", "e", "s", ",", " ", "c", "o", "u", "r", "s", "e", "s">>

Route_app_signup == <<"/", "a", "p", "p", "/", "s", "i", "g", "n", "u", "p">>
Route_course_7 == <<"/", "c", "o", "u", "r", "s", "e", "/", "7">>
Route_profile == <<"/", "p", "r", "o", "f", "i", "l", "e">>

C_stop == <<"S", "t", "o", "p">>
C_repeat == <<"r", "e", "p", "e", "a", "t">>
C_retry == <<"r", "e", "t", "r", "y">>
C_dance == <<"d", "a", "n", "c", "e">>

\* Outcomes of the completion call
RemoteRaises == [kind |-> "raise"]
ReplyText(text) == [kind |-> "reply", content |-> text]
NotJson == ReplyText([json |-> FALSE])
NoContent == ReplyText(DictNone)
JsonArray == ReplyText([json |-> TRUE, value |-> [array |-> TRUE]])
JsonObject(fields) == ReplyText([json |-> TRUE, value |-> [object |-> fields]])
ReplyFull ==
    JsonObject([intent |-> "highlight",
                slots |-> [element |-> "create_course_btn"],
                responseText |-> <<"Here is the button to create a course.">>,
                memory |-> [currentStep |-> "remote_step", goal |-> "teach"],
                action |-> [type |-> "highlight", target |-> "create_course_btn",
                            message |-> <<"Click here">>],
                requiresConfirmation |-> TRUE])
ReplyEmptyObject == JsonObject(<< >>)
ReplyNoResponseText == JsonObject([intent |-> "help"])
ReplyEmptyResponseText == JsonObject([intent |-> "help", responseText |-> << >>])
ReplyNullIntent == JsonObject([intent |-> StrNone, responseText |-> <<"Sure.">>])
ReplyNullMemory == JsonObject([intent |-> "help", responseText |-> <<"Sure.">>,
                               memory |-> DictNone])
ReplyStringAction == JsonObject([intent |-> "click", responseText |-> <<"Sure.">>,
                                 action |-> JStr])
ReplyNoAction == JsonObject([intent |-> "create_course", responseText |-> <<"Let us create one.">>])
ReplyBookkeepingMemory ==
    JsonObject([intent |-> "help", responseText |-> <<"Sure.">>,
                memory |-> [lastRoute |-> <<"/", "o", "l", "d">>, topic |-> "art"]])

AllRemoteOutcomes ==
    {RemoteRaises, NotJson, NoContent, JsonArray, ReplyFull, ReplyEmptyObject,
     ReplyNoResponseText, ReplyEmptyResponseText, ReplyNullIntent, ReplyNullMemory,
     ReplyStringAction, ReplyNoAction, ReplyBookkeepingMemory}

ApiKeys == {StrNone, "", "sk-test"}
Timestamps == {"2025-01-01T10:00:00"}

\* Inputs of the resolvers taken alone
ResolverUtterances ==
    {U_stop, U_STOP_please, U_Help, U_create_course, U_courses, U_sign_up, U_yes,
     U_hello, U_multi, U_empty, U_help_stop, U_course_signup, U_yes_courses}
ResolverRoutes ==
    {SeqNone, << >>, R_ROOT, R_SIGNUP, R_LOGIN, Route_course_7, R_ADMIN,
     Route_app_signup, Route_profile}
ResolverPageContexts ==
    {DictNone, << >>,
     [hasCourses |-> FALSE],
     [hasCourses |-> TRUE, hasTeaching |-> TRUE],
     [formFilled |-> Num(0)],
     [formFilled |-> Num(50)],
     [formFilled |-> Num(100)],
     [formFilled |-> DictNone],
     [isEnrolled |-> TRUE, hasTasks |-> TRUE]}
ResolverMemories ==
    {DEFAULT_MEMORY,
     [currentStep |-> "create_course", lastSuggestedAction |-> "open the signup form",
      topic |-> "math"]}

\* Inputs of the endpoints.  A configuration names the requests, the remote
\* outcomes and the database steps that may fail, and says whether requests
\* may be in flight together.
TurnRequest(userId, utterance, memory, currentRoute, pageContext) ==
    [userId |-> userId, utterance |-> utterance, memory |-> memory,
     currentRoute |-> currentRoute, pageContext |-> pageContext]
CommandRequest(userId, command, memory) ==
    [userId |-> userId, command |-> command, memory |-> memory]

RequestMemories == {<< >>, [topic |-> "math"]}
UserIds == {StrNone, "u1"}
AllFaults == {"load", "save", "analytics", "interaction"}

\* One request at a time, every input family
RichConfig ==
    [turns |-> {TurnRequest(u, w, m, rp[1], rp[2]) :
                    u \in UserIds,
                    w \in {U_stop, U_create_course, U_sign_up, U_yes, U_hello},
                    m \in RequestMemories,
                    rp \in {<<SeqNone, DictNone>>, <<R_ROOT, DictNone>>,
                            <<R_ROOT, [hasCourses |-> FALSE]>>,
                            <<R_SIGNUP, [formFilled |-> Num(50)]>>,
                            <<R_SIGNUP, [formFilled |-> DictNone]>>}},
     commands |-> {CommandRequest(u, c, m) :
                    u \in UserIds, c \in {C_stop, C_repeat, C_retry, C_dance},
                    m \in RequestMemories},
     remotes |-> AllRemoteOutcomes,
     faults |-> AllFaults,
     keys |-> ApiKeys,
     slots |-> 1,
     concurrent |-> FALSE]

\* Several requests; few inputs
SmallTurns ==
    {TurnRequest(u, w, m, SeqNone, DictNone) :
        u \in UserIds, w \in {U_hello}, m \in RequestMemories}
SmallCommands ==
    {CommandRequest(u, c, m) : u \in UserIds, c \in {C_stop}, m \in RequestMemories}
SequentialConfig ==
    [turns |-> SmallTurns, commands |-> SmallCommands,
     remotes |-> {ReplyFull, ReplyNullIntent},
     faults |-> {"load", "save"},
     keys |-> ApiKeys,
     slots |-> MaxOps,
     concurrent |-> FALSE]
ConcurrentCommands ==
    {CommandRequest(u, c, << >>) : u \in UserIds, c \in {C_stop}}
ConcurrentTurns ==
    {TurnRequest(u, U_hello, [topic |-> "math"], SeqNone, DictNone) : u \in UserIds}
ConcurrentConfig ==
    [turns |-> ConcurrentTurns, commands |-> ConcurrentCommands,
     remotes |-> {ReplyFull, ReplyNullIntent},
     faults |-> {"save"},
     keys |-> {StrNone, "sk-test"},
     slots |-> MaxOps,
     concurrent |-> TRUE]

\* ------------------------------------------------------------------- state
VARIABLES
    api_key,             \* openai.api_key, set when the module is imported
    voice_memory,        \* table voice_memory: user_id -> memory_data
    voice_analytics,     \* table voice_analytics, rows in insertion order
    voice_interactions,  \* table voice_interactions, rows in insertion order
    ops,                 \* the requests: position and local variables of each handler
    last_writer,         \* history: user_id -> the request whose save wrote the row last
    probe                \* the resolvers applied alone: inputs and results

vars == <<api_key, voice_memory, voice_analytics, voice_interactions, ops, last_writer, probe>>

OpIds == 1..MaxOps

IdleOp ==
    [kind |-> "none", pc |-> "idle", request |-> << >>, user_id |-> "",
     loaded |-> << >>, memory |-> << >>, remote |-> << >>, ai_result |-> << >>,
     updated_memory |-> << >>, response |-> << >>, loaded_from |-> 0, saved |-> "no"]

NoProbe == [stage |-> "off"]

InFlight(t) == ops[t].pc \notin {"idle", "done"}

\* A request may start: its slot is the next unused one, and in a sequential
\* configuration nothing else is in flight.
MayStart(t, cfg) ==
    /\ t <= cfg.slots
    /\ ops[t].pc = "idle"
    /\ \A s \in OpIds : s < t => ops[s].pc # "idle"
    /\ cfg.concurrent \/ \A s \in OpIds : ~InFlight(s)

\* The outcomes of a database step: it may raise where the configuration says so.
DbOutcomes(cfg, step) == IF step \in cfg.faults THEN {TRUE, FALSE} ELSE {TRUE}

LastWriterOf(user_id) == IF user_id \in DOMAIN last_writer THEN last_writer[user_id] ELSE 0

RecordWriter(user_id, t, db_ok) ==
    IF db_ok
    THEN [u \in DOMAIN last_writer \cup {user_id} |-> IF u = user_id THEN t ELSE last_writer[u]]
    ELSE last_writer

StoreInit(cfg) ==
    /\ api_key \in cfg.keys
    /\ voice_memory = << >>
    /\ voice_analytics = << >>
    /\ voice_interactions = << >>
    /\ ops = [t \in OpIds |-> IdleOp]
    /\ last_writer = << >>
    /\ probe = NoProbe

\* ---------------------------------------------- process_voice_intent, steps
\* A handler runs without interruption between two awaits that suspend: the
\* database statements and the completion call.

\* The exception reaches the endpoint's except: the error response is returned.
FailTurn(op) == [op EXCEPT !.pc = "done", !.response = ErrorResponse(op.request)]

\* From the request to the first suspension after load_user_memory returned:
\* the completion call, or, when it is not made, save_user_memory.
TurnLoad(t, cfg) ==
    /\ MayStart(t, cfg)
    /\ \E request \in cfg.turns, db_ok \in DbOutcomes(cfg, "load") :
        LET user_id == EffectiveUserId(request.userId)
            loaded == load_user_memory(voice_memory, user_id, db_ok)
            memory == MergeRequestMemory(loaded, request.memory)
            started == [IdleOp EXCEPT !.kind = "turn", !.request = request,
                                      !.user_id = user_id, !.loaded = loaded,
                                      !.memory = memory,
                                      !.loaded_from = LastWriterOf(user_id)]
            ai_result == get_smart_openai_response(request.utterance, memory,
                             request.currentRoute, request.pageContext, api_key,
                             RemoteRaises, StrNone)
        IN
        ops' = [ops EXCEPT ![t] =
                   IF CallsRemote(api_key, request.currentRoute, request.pageContext)
                   THEN [started EXCEPT !.pc = "remote"]
                   ELSE IF IsRaised(ai_result) THEN FailTurn(started)
                   ELSE [started EXCEPT !.pc = "save", !.ai_result = ai_result]]
    /\ UNCHANGED <<api_key, voice_memory, voice_analytics, voice_interactions, last_writer, probe>>

\* The completion call returns (a reply or an exception); the resolver ends.
RemoteReturns(t, cfg) ==
    /\ ops[t].pc = "remote"
    /\ \E remote \in cfg.remotes, now \in Timestamps :
        LET op == ops[t]
            ai_result == get_smart_openai_response(op.request.utterance, op.memory,
                             op.request.currentRoute, op.request.pageContext, api_key,
                             remote, now)
        IN
        ops' = [ops EXCEPT ![t] =
                   IF IsRaised(ai_result) THEN FailTurn([op EXCEPT !.remote = remote])
                   ELSE [op EXCEPT !.pc = "save", !.remote = remote, !.ai_result = ai_result]]
    /\ UNCHANGED <<api_key, voice_memory, voice_analytics, voice_interactions, last_writer, probe>>

\* save_user_memory, then the response is built (lines 650-672).
TurnSave(t, cfg) ==
    /\ ops[t].kind = "turn"
    /\ ops[t].pc = "save"
    /\ \E db_ok \in DbOutcomes(cfg, "save") :
        LET op == ops[t]
            updated_memory == UpdatedMemory(op.ai_result, op.memory)
            table == save_user_memory(voice_memory, op.user_id, updated_memory, db_ok)
            response == BuildResponse(op.ai_result, updated_memory)
            saved == [op EXCEPT !.updated_memory = updated_memory,
                                !.saved = IF db_ok THEN "ok" ELSE "failed"]
        IN
        /\ voice_memory' = IF IsRaised(table) THEN voice_memory ELSE table
        /\ last_writer' = RecordWriter(op.user_id, t, db_ok)
        /\ ops' = [ops EXCEPT ![t] =
                      IF IsRaised(table) \/ IsRaised(response) THEN FailTurn(saved)
                      ELSE [saved EXCEPT !.pc = "analytics", !.response = response]]
    /\ UNCHANGED <<api_key, voice_analytics, voice_interactions, probe>>

\* log_analytics_event (lines 675-682)
TurnAnalytics(t, cfg) ==
    /\ ops[t].kind = "turn"
    /\ ops[t].pc = "analytics"
    /\ \E db_ok \in DbOutcomes(cfg, "analytics") :
        LET op == ops[t]
        IN
        voice_analytics' =
            log_analytics_event(voice_analytics, op.user_id, "intent_processed",
                                op.ai_result.intent, op.ai_result.slots,
                                op.updated_memory, op.ai_result.responseText, db_ok)
    /\ ops' = [ops EXCEPT ![t].pc = "interaction"]
    /\ UNCHANGED <<api_key, voice_memory, voice_interactions, last_writer, probe>>

\* The interaction row (lines 685-700), then the response is returned.
TurnInteraction(t, cfg) ==
    /\ ops[t].kind = "turn"
    /\ ops[t].pc = "interaction"
    /\ \E db_ok \in DbOutcomes(cfg, "interaction") :
        LET op == ops[t]
        IN
        voice_interactions' =
            LogInteraction(voice_interactions, op.user_id, op.request.utterance,
                           op.ai_result, op.response.action, db_ok)
    /\ ops' = [ops EXCEPT ![t].pc = "done"]
    /\ UNCHANGED <<api_key, voice_memory, voice_analytics, last_writer, probe>>

\* --------------------------------------------- process_voice_command, steps
CommandLoad(t, cfg) ==
    /\ MayStart(t, cfg)
    /\ \E request \in cfg.commands, db_ok \in DbOutcomes(cfg, "load") :
        LET user_id == EffectiveUserId(request.userId)
            loaded == load_user_memory(voice_memory, user_id, db_ok)
            memory == MergeRequestMemory(loaded, request.memory)
            result == CommandResult(request.command, memory)
        IN
        ops' = [ops EXCEPT ![t] =
                   [IdleOp EXCEPT !.kind = "command", !.pc = "save", !.request = request,
                                  !.user_id = user_id, !.loaded = loaded,
                                  !.memory = memory, !.ai_result = result,
                                  !.loaded_from = LastWriterOf(user_id)]]
    /\ UNCHANGED <<api_key, voice_memory, voice_analytics, voice_interactions, last_writer, probe>>

\* The except branch of the command endpoint (lines 760-766)
FailCommand(op) ==
    [op EXCEPT !.pc = "done",
               !.response = [command |-> op.request.command,
                             responseText |-> <<"Error processing command.">>,
                             memory |-> op.request.memory]]

\* save_user_memory (line 742)
CommandSave(t, cfg) ==
    /\ ops[t].kind = "command"
    /\ ops[t].pc = "save"
    /\ \E db_ok \in DbOutcomes(cfg, "save") :
        LET op == ops[t]
            table == save_user_memory(voice_memory, op.user_id, op.ai_result.memory, db_ok)
            saved == [op EXCEPT !.updated_memory = op.ai_result.memory,
                                !.saved = IF db_ok THEN "ok" ELSE "failed"]
        IN
        /\ voice_memory' = IF IsRaised(table) THEN voice_memory ELSE table
        /\ last_writer' = RecordWriter(op.user_id, t, db_ok)
        /\ ops' = [ops EXCEPT ![t] =
                      IF IsRaised(table) THEN FailCommand(saved)
                      ELSE [saved EXCEPT !.pc = "analytics"]]
    /\ UNCHANGED <<api_key, voice_analytics, voice_interactions, probe>>

\* log_analytics_event, then the response is returned (lines 745-758)
CommandAnalytics(t, cfg) ==
    /\ ops[t].kind = "command"
    /\ ops[t].pc = "analytics"
    /\ \E db_ok \in DbOutcomes(cfg, "analytics") :
        LET op == ops[t]
        IN
        voice_analytics' =
            log_analytics_event(voice_analytics, op.user_id, "command_processed",
                                op.ai_result.command, [command |-> op.ai_result.command],
                                op.updated_memory, op.ai_result.responseText, db_ok)
    /\ LET op == ops[t]
       IN
       ops' = [ops EXCEPT ![t] =
                  [op EXCEPT !.pc = "done",
                             !.response = [command |-> op.ai_result.command,
                                           responseText |-> op.ai_result.responseText,
                                           memory |-> op.updated_memory]]]
    /\ UNCHANGED <<api_key, voice_memory, voice_interactions, last_writer, probe>>

Step(t, cfg) ==
    \/ TurnLoad(t, cfg)
    \/ RemoteReturns(t, cfg)
    \/ TurnSave(t, cfg)
    \/ TurnAnalytics(t, cfg)
    \/ TurnInteraction(t, cfg)
    \/ CommandLoad(t, cfg)
    \/ CommandSave(t, cfg)
    \/ CommandAnalytics(t, cfg)

\* Requests in flight together
Init == StoreInit(ConcurrentConfig)
Next == \E t \in OpIds : Step(t, ConcurrentConfig)
Spec == Init /\ [][Next]_vars

\* Requests one at a time
SeqNext == \E t \in OpIds : Step(t, SequentialConfig)
SeqInit == StoreInit(SequentialConfig)
SeqSpec == SeqInit /\ [][SeqNext]_vars

\* One request, every input family
TurnNext == \E t \in OpIds : Step(t, RichConfig)
TurnInit == StoreInit(RichConfig)
TurnSpec == TurnInit /\ [][TurnNext]_vars

\* Requests one at a time, every step of a handler that only waits for the
\* event loop or the database eventually taken.  Nothing makes a request
\* arrive, and nothing makes the completion service answer.
HandlerFairness ==
    \A t \in OpIds :
        /\ WF_vars(TurnSave(t, SequentialConfig))
        /\ WF_vars(TurnAnalytics(t, SequentialConfig))
        /\ WF_vars(TurnInteraction(t, SequentialConfig))
        /\ WF_vars(CommandSave(t, SequentialConfig))
        /\ WF_vars(CommandAnalytics(t, SequentialConfig))
FairSpec == SeqInit /\ [][SeqNext]_vars /\ HandlerFairness

\* ------------------------------------------------- the resolvers taken alone
ResolverInit ==
    /\ api_key \in ApiKeys
    /\ voice_memory = << >>
    /\ voice_analytics = << >>
    /\ voice_interactions = << >>
    /\ ops = [t \in OpIds |-> IdleOp]
    /\ last_writer = << >>
    /\ \E utterance \in ResolverUtterances, memory \in ResolverMemories,
          current_route \in ResolverRoutes, page_context \in ResolverPageContexts :
        probe = [stage |-> "input", utterance |-> utterance, memory |-> memory,
                 current_route |-> current_route, page_context |-> page_context,
                 remote |-> << >>, local |-> << >>, smart |-> << >>]

\* process_intent_with_context on the inputs
ResolveLocal ==
    /\ probe.stage = "input"
    /\ probe' = [probe EXCEPT !.stage = "local",
                              !.local = process_intent_with_context(probe.utterance,
                                            probe.memory, probe.current_route,
                                            probe.page_context)]
    /\ UNCHANGED <<api_key, voice_memory, voice_analytics, voice_interactions, ops, last_writer>>

\* get_smart_openai_response on the same inputs, under one outcome of the
\* completion call when it is made
ResolveSmart ==
    /\ probe.stage = "local"
    /\ \E remote \in AllRemoteOutcomes, now \in Timestamps :
        /\ CallsRemote(api_key, probe.current_route, probe.page_context)
              \/ remote = RemoteRaises
        /\ probe' = [probe EXCEPT
                        !.stage = "smart",
                        !.remote = IF CallsRemote(api_key, probe.current_route,
                                                  probe.page_context)
                                   THEN remote ELSE << >>,
                        !.smart = get_smart_openai_response(probe.utterance, probe.memory,
                                      probe.current_route, probe.page_context, api_key,
                                      remote, now)]
    /\ UNCHANGED <<api_key, voice_memory, voice_analytics, voice_interactions, ops, last_writer>>

ResolverNext == ResolveLocal \/ ResolveSmart
ResolverSpec == ResolverInit /\ [][ResolverNext]_vars

\* ------------------------------------------------------------------ claims
\* The completion call was not made for want of a key, or it raised, or its
\* reply is no JSON text.
RemotePathFailed ==
    \/ KeyUnset(api_key)
    \/ /\ probe.remote # << >>
       /\ \/ probe.remote.kind = "raise"
          \/ probe.remote.content = DictNone
          \/ ~probe.remote.content.json

\* C1: in get_smart_openai_response, when the credential is unset, the
\* completion call raises or the reply is no JSON, the outcome is exactly the
\* outcome of process_intent_with_context on the same utterance, memory, route
\* and page context.
C1_FallbackEqualsLocal ==
    (probe.stage = "smart" /\ RemotePathFailed) => probe.smart = probe.local

C1_Witness ==
    /\ probe.stage = "smart"
    /\ ~KeyUnset(api_key)
    /\ probe.remote = NotJson
    /\ ~IsRaised(probe.local)
    /\ probe.local.intent = "create_account"
    /\ probe.smart = probe.local

\* A JSON value conforms to the reply schema: an object whose intent and
\* responseText are strings and whose slots, memory and action, when given,
\* are objects.
ConformsToSchema(value) ==
    /\ "object" \in DOMAIN value
    /\ LET reply == value.object
       IN /\ "intent" \in DOMAIN reply /\ reply.intent # StrNone
          /\ "responseText" \in DOMAIN reply /\ reply.responseText # SeqNone
          /\ Get(reply, "slots", << >>) # DictNone
          /\ Get(reply, "memory", << >>) # DictNone
          /\ Get(reply, "action", << >>) # JStr

\* C2: a reply that parses as JSON but does not conform to the schema is never
\* used to build the result: the outcome is the deterministic resolver's.
C2_NonConformingReplyDelegates ==
    ( /\ probe.stage = "smart"
      /\ probe.remote # << >>
      /\ probe.remote.kind = "reply"
      /\ probe.remote.content # DictNone
      /\ probe.remote.content.json
      /\ ~ConformsToSchema(probe.remote.content.value) )
    => probe.smart = probe.local

LocalIntents ==
    {"stop", "help", "create_course", "browse_courses", "create_account", "confirm",
     "contextual_help"}

\* C4: process_intent_with_context is total: on every utterance, memory, route
\* and page-signal map it returns, without raising, a result with a non-empty
\* responseText and one of the seven intents.
C4_LocalResolverTotal ==
    probe.stage \in {"local", "smart"} =>
        /\ ~IsRaised(probe.local)
        /\ ~IsEmptyText(probe.local.responseText)
        /\ probe.local.intent \in LocalIntents

\* A turn has returned its response.
TurnDone(t) == ops[t].kind = "turn" /\ ops[t].pc = "done"

\* C3: every response of the turn endpoint, on every path and whatever the
\* remote service replied, carries an intent tag and a non-empty responseText.
C3_ResponseHasIntentAndText ==
    \A t \in OpIds :
        TurnDone(t) =>
            /\ "intent" \in DOMAIN ops[t].response
            /\ ops[t].response.intent # StrNone
            /\ ~IsEmptyText(ops[t].response.responseText)

\* The response of a turn on which no write fails: it is fixed by the request,
\* the memory loaded, the completion service's outcome and the clock.
FaultFreeResponse(op, now) ==
    LET memory == MergeRequestMemory(op.loaded, op.request.memory)
        ai_result == get_smart_openai_response(op.request.utterance, memory,
                         op.request.currentRoute, op.request.pageContext, api_key,
                         IF op.remote = << >> THEN RemoteRaises ELSE op.remote, now)
    IN
    IF IsRaised(ai_result) THEN ErrorResponse(op.request)
    ELSE LET response == BuildResponse(ai_result, UpdatedMemory(ai_result, memory))
         IN IF IsRaised(response) THEN ErrorResponse(op.request) ELSE response

\* C10: whether save_user_memory, log_analytics_event or the interaction
\* insert fail or not, a turn returns the response of the turn on which no
\* write fails; a failed write never yields the internal-error response.
C10_WriteFailureKeepsResponse ==
    \A t \in OpIds :
        TurnDone(t) =>
            \E now \in Timestamps : ops[t].response = FaultFreeResponse(ops[t], now)

C10_Witness ==
    \E t \in OpIds :
        /\ TurnDone(t)
        /\ ops[t].saved = "failed"
        /\ voice_analytics = << >>
        /\ voice_interactions = << >>
        /\ ops[t].remote = ReplyFull
        /\ ops[t].response.intent = "highlight"
        /\ \E now \in Timestamps : ops[t].response = FaultFreeResponse(ops[t], now)

\* The keys the resolver or the command branch of a request set: those whose
\* value in the memory saved differs from the memory the branch was given.
ResolverPatchKeys(op) ==
    {k \in DOMAIN op.updated_memory :
        k \notin DOMAIN op.memory \/ op.updated_memory[k] # op.memory[k]}

\* C5: with requests served one at a time, every key of a user's stored
\* record before an operation is still in it afterwards, and keeps its value
\* unless the request's memory or the resolver's or command's patch sets it:
\* the record is merged into, never replaced.
C5_StoredMemoryMergedNotReplaced ==
    [][\A u \in DOMAIN voice_memory :
          LET old == json_loads_dict(voice_memory[u])
              new == json_loads_dict(voice_memory'[u])
              op == ops'[last_writer'[u]]
          IN \A k \in DOMAIN old :
                /\ k \in DOMAIN new
                /\ \/ new[k] = old[k]
                   \/ k \in DOMAIN op.request.memory
                   \/ k \in ResolverPatchKeys(op)]_vars

\* C6: when a request loads the memory of a user whose row was last written
\* by the successful save of an earlier request, it loads exactly the memory
\* that request returned in its response.
C6_ReadAfterWrite ==
    \A t \in OpIds :
        LET s == ops[t].loaded_from
        IN (ops[t].pc # "idle" /\ s # 0 /\ ops[s].pc = "done")
               => ops[t].loaded = ops[s].response.memory

\* C9: a turn that waits for the completion call eventually returns its
\* response, whether or not the service ever replies.
C9_RemoteCallBounded ==
    \A t \in OpIds : (ops[t].pc = "remote") ~> (ops[t].pc = "done")

\* C7: when requests of one user interleave, the stored record is at every
\* moment exactly the whole memory one save_user_memory call was given, that
\* of the call that wrote last; never a mixture of two writes.
C7_RecordIsOneSavedValue ==
    \A u \in DOMAIN voice_memory :
        /\ u \in DOMAIN last_writer
        /\ ops[last_writer[u]].saved = "ok"
        /\ json_loads_dict(voice_memory[u]) = ops[last_writer[u]].updated_memory

C7_Witness ==
    \E s, t \in OpIds :
        /\ s # t
        /\ ops[s].user_id = ops[t].user_id
        /\ ops[s].saved = "ok" /\ ops[t].saved = "ok"
        /\ ops[s].loaded_from = 0 /\ ops[t].loaded_from = 0
        /\ ops[s].updated_memory # ops[t].updated_memory
        /\ "topic" \in DOMAIN ops[s].updated_memory
        /\ LastWriterOf(ops[t].user_id) = t
        /\ json_loads_dict(voice_memory[ops[t].user_id]) = ops[t].updated_memory

\* The user a request is made for: the one it names, the anonymous one when
\* it names none.
UserOf(request) ==
    IF request.userId = StrNone \/ request.userId = "" THEN "anonymous" ELSE request.userId

\* The response of a command, fixed by the request and the memory loaded.
CommandResponse(op) ==
    LET result == CommandResult(op.request.command,
                                MergeRequestMemory(op.loaded, op.request.memory))
    IN [command |-> result.command, responseText |-> result.responseText,
        memory |-> result.memory]

\* A step of a request changes no row but its user's.
OtherRowsUnchanged ==
    \A t \in OpIds :
        (ops'[t] # ops[t]) =>
            \A u \in DOMAIN voice_memory' :
                u # UserOf(ops'[t].request) =>
                    u \in DOMAIN voice_memory /\ voice_memory'[u] = voice_memory[u]

\* The memory a request loaded is a default or a value saved for its user.
LoadedFromOwnRow ==
    \A t \in OpIds :
        ops[t].pc # "idle" =>
            \/ ops[t].loaded \in {DEFAULT_MEMORY, DEFAULT_MEMORY_ON_ERROR}
            \/ \E s \in OpIds :
                /\ ops[s].saved = "ok"
                /\ UserOf(ops[s].request) = UserOf(ops[t].request)
                /\ ops[t].loaded = ops[s].updated_memory

\* The response of a request is fixed by the request, the memory it loaded and
\* the completion service's outcome.
ResponseFromOwnInputs ==
    \A t \in OpIds :
        ops[t].pc = "done" =>
            IF ops[t].kind = "turn"
            THEN \E now \in Timestamps : ops[t].response = FaultFreeResponse(ops[t], now)
            ELSE ops[t].response = CommandResponse(ops[t])

\* C8: under any interleaving, a request of user A changes no stored record
\* but A's, loads no record but A's, and answers from its own request and A's
\* record alone.
C8_UsersIndependent ==
    [](LoadedFromOwnRow /\ ResponseFromOwnInputs) /\ [][OtherRowsUnchanged]_vars

C8_Witness ==
    \E s, t \in OpIds :
        /\ ops[s].pc = "analytics" /\ ops[s].saved = "ok"
        /\ ops[t].pc = "analytics" /\ ops[t].saved = "ok"
        /\ UserOf(ops[s].request) = "u1"
        /\ UserOf(ops[t].request) = "anonymous"
        /\ "topic" \in DOMAIN ops[s].updated_memory
        /\ json_loads_dict(voice_memory["u1"]) = ops[s].updated_memory
        /\ json_loads_dict(voice_memory["anonymous"]) = ops[t].updated_memory
        /\ ops[s].updated_memory # ops[t].updated_memory

\* The selector map of the page a request was made on.
SelectorMapOf(request) == ROUTE_MAPPING[RouteKey(request.currentRoute)].selectors

\* C11: every highlight action a turn returns, whichever resolver made it, has
\* had its abstract target replaced by the selector-map entry of that name
\* when the page has one; so "create course" on "/" with no courses returns a
\* highlight of the selector of create_course_btn, not of the identifier.
C11_HighlightTargetResolved ==
    \A t \in OpIds :
        (TurnDone(t) /\ ops[t].response.action # DictNone
                     /\ ops[t].response.action.type = "highlight")
            => ops[t].response.action.target \notin DOMAIN SelectorMapOf(ops[t].request)

\* ----------------------------------- enhance_action_with_context taken alone
\* The actions a reply can carry: a dict with or without type and target, {},
\* null, or a string.
EnhanceTypes == {"highlight", "click", "navigate", "speak", StrNone}
EnhanceTargets ==
    {"create_course_btn", "course_cards", "email_field", "password_field",
     "voice_button", "/signup", "", StrNone}
EnhanceActions ==
    {[type |-> ty, target |-> tg, message |-> <<"Look here">>] :
        ty \in EnhanceTypes, tg \in EnhanceTargets}
    \cup {[target |-> tg] : tg \in EnhanceTargets}
    \cup {[type |-> ty] : ty \in EnhanceTypes}
    \cup {DictNone, << >>, JStr}

EnhanceInit ==
    /\ api_key \in {StrNone}
    /\ voice_memory = << >>
    /\ voice_analytics = << >>
    /\ voice_interactions = << >>
    /\ ops = [t \in OpIds |-> IdleOp]
    /\ last_writer = << >>
    /\ \E action \in EnhanceActions, current_route \in ResolverRoutes :
        probe = [stage |-> "action", action |-> action, current_route |-> current_route,
                 enhanced |-> << >>]

\* enhance_action_with_context on the action and the analysis of the route
Enhance ==
    /\ probe.stage = "action"
    /\ probe' = [probe EXCEPT
                    !.stage = "enhanced",
                    !.enhanced = enhance_action_with_context(probe.action,
                                     analyze_page_context(probe.current_route, DictNone),
                                     "highlight")]
    /\ UNCHANGED <<api_key, voice_memory, voice_analytics, voice_interactions, ops, last_writer>>

EnhanceNext == Enhance
EnhanceSpec == EnhanceInit /\ [][EnhanceNext]_vars

\* The reference function: absent for an absent action; for a highlight or
\* click whose target names an entry of the selector map, that entry; any
\* other target unchanged.
ReferenceEnhance(action, selectors) ==
    IF action = DictNone \/ action = << >> THEN DictNone
    ELSE LET type == Get(action, "type", "speak")
             target == Get(action, "target", StrNone)
         IN [type |-> type,
             target |-> IF type \in {"highlight", "click"} /\ target \in DOMAIN selectors
                        THEN selectors[target] ELSE target,
             message |-> Get(action, "message", SeqNone),
             data |-> Get(action, "data", DictNone)]

\* C12: enhance_action_with_context equals the reference function on every
\* input and fails on none.
C12_EnhanceEqualsReference ==
    probe.stage = "enhanced" =>
        /\ ~IsRaised(probe.enhanced)
        /\ probe.enhanced =
              ReferenceEnhance(probe.action,
                               ROUTE_MAPPING[RouteKey(probe.current_route)].selectors)

\* The same on the actions that are objects with a type that is a string.
C12_OnWellFormedActions ==
    (probe.stage = "enhanced" /\ probe.action # JStr
        /\ Get(probe.action, "type", "speak") # StrNone)
    => probe.enhanced =
          ReferenceEnhance(probe.action,
                           ROUTE_MAPPING[RouteKey(probe.current_route)].selectors)

\* ------------------------------------------ analyze_page_context taken alone
Route_signup_step2 == <<"/", "s", "i", "g", "n", "u", "p", "/", "s", "t", "e", "p", "2">>
Route_login_signup == <<"/", "l", "o", "g", "i", "n", "/", "s", "i", "g", "n", "u", "p">>
Route_my_course_7 == <<"/", "m", "y", "/", "c", "o", "u", "r", "s", "e", "/", "7">>
Route_admin_3 == <<"/", "s", "c", "h", "o", "o", "l", "/", "a", "d", "m", "i", "n", "/", "3">>
Route_homepage == <<"/", "h", "o", "m", "e", "p", "a", "g", "e">>
Route_courses == <<"/", "c", "o", "u", "r", "s", "e", "s">>
AnalyzeRoutes ==
    ResolverRoutes \cup {R_HOME, Route_signup_step2, Route_login_signup, Route_my_course_7,
                         Route_admin_3, Route_homepage, Route_courses}

AnalyzeInit ==
    /\ api_key \in {StrNone}
    /\ voice_memory = << >>
    /\ voice_analytics = << >>
    /\ voice_interactions = << >>
    /\ ops = [t \in OpIds |-> IdleOp]
    /\ last_writer = << >>
    /\ \E current_route \in AnalyzeRoutes, page_context \in ResolverPageContexts :
        probe = [stage |-> "route", current_route |-> current_route,
                 page_context |-> page_context, analysis |-> << >>]

\* analyze_page_context on the route and the page signals
Analyze ==
    /\ probe.stage = "route"
    /\ probe' = [probe EXCEPT
                    !.stage = "analyzed",
                    !.analysis = analyze_page_context(probe.current_route,
                                                      probe.page_context)]
    /\ UNCHANGED <<api_key, voice_memory, voice_analytics, voice_interactions, ops, last_writer>>

AnalyzeNext == Analyze
AnalyzeSpec == AnalyzeInit /\ [][AnalyzeNext]_vars

\* A route matches a pattern when it is the pattern or starts with it.
StartsWith(route, pattern) ==
    Len(pattern) <= Len(route) /\ SubSeq(route, 1, Len(pattern)) = pattern

\* The ordered table of route patterns: the first row that matches gives the
\* key, no row gives the default.
TableKey(route) ==
    IF route = SeqNone THEN "home"
    ELSE IF route = R_ROOT \/ route = R_HOME THEN "home"
    ELSE IF StartsWith(route, R_SIGNUP) THEN "signup"
    ELSE IF StartsWith(route, R_LOGIN) THEN "login"
    ELSE IF StartsWith(route, R_COURSE) THEN "course_detail"
    ELSE IF StartsWith(route, R_ADMIN) THEN "admin_dashboard"
    ELSE "home"

\* A route matches none of the known patterns: it is absent, or it is neither
\* "/" nor "/home" and none of the other patterns occurs in it.
MatchesNoPattern(route) ==
    \/ route = SeqNone
    \/ /\ route # R_ROOT /\ route # R_HOME
       /\ \A pattern \in {R_SIGNUP, R_LOGIN, R_COURSE, R_ADMIN} : ~Contains(route, pattern)

C14_RouteKeyByPrefixTable ==
    (probe.stage = "analyzed" /\ ~IsRaised(probe.analysis))
        => probe.analysis.route_key = TableKey(probe.current_route)

\* The phrase families in their order of precedence, each with its intent.
FamilyOrder ==
    <<[intent |-> "stop", phrases |-> STOP_PHRASES],
      [intent |-> "help", phrases |-> HELP_PHRASES],
      [intent |-> "create_course", phrases |-> CREATE_COURSE_PHRASES],
      [intent |-> "browse_courses", phrases |-> BROWSE_COURSES_PHRASES],
      [intent |-> "create_account", phrases |-> CREATE_ACCOUNT_PHRASES],
      [intent |-> "confirm", phrases |-> CONFIRM_PHRASES]>>

\* The families of which a phrase occurs in the utterance, whatever the case
\* of its letters.
MatchedFamilies(utterance) ==
    {i \in DOMAIN FamilyOrder : AnyPhraseIn(FamilyOrder[i].phrases, Lower(utterance))}

EarliestFamilyIntent(utterance) ==
    LET matched == MatchedFamilies(utterance)
    IN IF matched = {} THEN "contextual_help"
       ELSE FamilyOrder[CHOOSE i \in matched : \A j \in matched : i <= j].intent

\* C15: process_intent_with_context gives an utterance that contains phrases
\* of several families the intent of the earliest of them in the order stop,
\* help, course creation, course browsing, account creation, confirmation,
\* whatever the letter case and the place of the phrases.
C15_EarliestFamilyWins ==
    (probe.stage \in {"local", "smart"} /\ Cardinality(MatchedFamilies(probe.utterance)) > 1)
        => /\ ~IsRaised(probe.local)
           /\ probe.local.intent = EarliestFamilyIntent(probe.utterance)

\* Every result the resolver returns has the intent of the earliest family of
\* the utterance, or the default intent when it holds no phrase.
C15_OnReturnedResults ==
    (probe.stage \in {"local", "smart"} /\ ~IsRaised(probe.local))
        => probe.local.intent = EarliestFamilyIntent(probe.utterance)

\* The turn was resolved by the deterministic resolver: the completion call
\* was not made, or it raised, or its reply was no JSON text.
ResolvedLocally(op) ==
    \/ KeyUnset(api_key)
    \/ /\ op.remote # << >>
       /\ \/ op.remote.kind = "raise"
          \/ op.remote.content = DictNone
          \/ ~op.remote.content.json

\* C16: a turn resolved by the deterministic resolver, whose utterance holds
\* an account-creation phrase and no phrase of an earlier family, made on a
\* route whose key is not signup, returns intent create_account and an action
\* of type navigate with target "/signup".
C16_SignUpElsewhereNavigates ==
    \A t \in OpIds :
        (/\ ops[t].kind = "turn"
         /\ ops[t].pc = "done"
         /\ ResolvedLocally(ops[t])
         /\ EarliestFamilyIntent(ops[t].request.utterance) = "create_account"
         /\ RouteKey(ops[t].request.currentRoute) # "signup")
            => /\ ops[t].response.intent = "create_account"
               /\ ops[t].response.action # DictNone
               /\ ops[t].response.action.type = "navigate"
               /\ ops[t].response.action.target = "/signup"

C16_Witness ==
    \E t \in OpIds :
        /\ TurnDone(t)
        /\ KeyUnset(api_key)
        /\ ops[t].request.utterance = U_sign_up
        /\ ops[t].request.currentRoute = R_ROOT
        /\ ops[t].request.pageContext = DictNone
        /\ ops[t].response.intent = "create_account"
        /\ ops[t].response.action.target = "/signup"


\* The record of the user of a request before the request: the memory the last
\* successful save for that user was given, or nothing.
PriorRecord(op) ==
    IF op.loaded_from = 0 THEN << >> ELSE ops[op.loaded_from].updated_memory

\* A stop command has returned and no later request has begun.
StopCommandJustDone(t) ==
    /\ ops[t].kind = "command"
    /\ ops[t].pc = "done"
    /\ Lower(ops[t].request.command) = <<"s", "t", "o", "p">>
    /\ \A s \in OpIds : s > t => ops[s].pc = "idle"

\* C17: after a stop command of user u, in any letter case and from any prior
\* memory, u's stored memory has currentStep "stopped" and keeps every other
\* key it had, the response text is the fixed stop message, no completion call
\* was made, and the last analytics row is a command_processed event of u.
C17_StopCommandEffects ==
    \A t \in OpIds :
        StopCommandJustDone(t) =>
            LET u == ops[t].user_id
            IN /\ u \in DOMAIN voice_memory
               /\ Get(json_loads_dict(voice_memory[u]), "currentStep", StrNone) = "stopped"
               /\ \A k \in DOMAIN PriorRecord(ops[t]) :
                     k \in DOMAIN json_loads_dict(voice_memory[u])
               /\ ops[t].response.responseText
                     = <<"Voice assistant stopped. You can restart anytime.">>
               /\ ops[t].remote = << >>
               /\ voice_analytics # << >>
               /\ voice_analytics[Len(voice_analytics)].event_type = "command_processed"
               /\ voice_analytics[Len(voice_analytics)].user_id = u


\* Requests s and then t, both returned, are the same request sent twice in a
\* row: the same control command with the same memory patch, or the same turn
\* resolved by the deterministic resolver both times.
SameRequestTwice(s, t) ==
    /\ t = s + 1
    /\ ops[s].pc = "done"
    /\ ops[t].pc = "done"
    /\ ops[s].kind = ops[t].kind
    /\ ops[s].request = ops[t].request
    /\ ops[s].kind = "turn" => ResolvedLocally(ops[s]) /\ ResolvedLocally(ops[t])

\* C18: when the same request is sent twice in a row for a user and the first
\* one stored its memory, the record after the second is the record after the
\* first.
C18_SameRequestTwiceSameRecord ==
    \A s, t \in OpIds :
        (SameRequestTwice(s, t) /\ ops[s].saved = "ok")
            => json_loads_dict(voice_memory[ops[s].user_id]) = ops[s].updated_memory


\* C19: load_user_memory never raises, and a request that loads the memory of
\* a user who has no stored record gets the fixed default record: currentStep
\* "welcome", empty onboardingProgress and the fixed greeting, the same for
\* every such request.
C19_UnknownUserGetsTheDefault ==
    \A t \in OpIds :
        ops[t].pc # "idle" =>
            /\ ~IsRaised(ops[t].loaded)
            /\ ops[t].loaded_from = 0 => ops[t].loaded = DEFAULT_MEMORY


\* The completion service could not be reached for a turn: no key is
\* configured, or the call raised.
CapabilityUnreachable(op) ==
    \/ KeyUnset(api_key)
    \/ op.remote # << >> /\ op.remote.kind = "raise"

\* The fields of the response of a turn that succeeded.
ResponseFields ==
    {"intent", "slots", "responseText", "memory", "action", "requiresConfirmation"}

\* C20: a turn for which the completion service was unreachable returns a
\* response with the fields of the success case and an intent other than
\* "error"; a response with intent "error" carries the apology text and a
\* speak action with the retry message.
C20_UnreachableIsNotAnError ==
    \A t \in OpIds :
        TurnDone(t) =>
            /\ DOMAIN ops[t].response = ResponseFields
            /\ CapabilityUnreachable(ops[t]) => ops[t].response.intent # "error"
            /\ ops[t].response.intent = "error" =>
                  /\ ops[t].response.responseText
                        = <<"I'm sorry, I encountered an error. Please try again.">>
                  /\ ops[t].response.action.type = "speak"
                  /\ ops[t].response.action.message
                        = <<"I'm sorry, I encountered an error. Please try again.">>

\* The same, for the turns in which nothing but the completion call failed:
\* the page analysis of the request does not raise.
C20_UnreachableAloneIsNotAnError ==
    \A t \in OpIds :
        (/\ TurnDone(t)
         /\ CapabilityUnreachable(ops[t])
         /\ ~IsRaised(analyze_page_context(ops[t].request.currentRoute,
                                           ops[t].request.pageContext)))
            => ops[t].response.intent # "error"


\* The keys get_smart_openai_response writes itself into the result memory.
BookkeepingKeys == {"lastRoute", "lastContext", "lastInteraction"}

\* The remote resolution succeeded: the call was made, the reply is a JSON
\* object and the result was built from it.
RemoteSucceeded ==
    /\ probe.stage = "smart"
    /\ probe.remote # << >>
    /\ probe.remote.kind = "reply"
    /\ probe.remote.content # DictNone
    /\ probe.remote.content.json
    /\ "object" \in DOMAIN probe.remote.content.value
    /\ ~IsRaised(probe.smart)
    /\ "lastInteraction" \in DOMAIN probe.smart.memory

ReplyMemory == Get(probe.remote.content.value.object, "memory", << >>)

\* The result memory is the incoming memory, overlaid with the reply's memory,
\* overlaid with the bookkeeping fields.
OverlaidMemory ==
    LET result == probe.smart.memory
    IN /\ DOMAIN result = DOMAIN probe.memory \cup DOMAIN ReplyMemory \cup BookkeepingKeys
       /\ \A k \in DOMAIN probe.memory \ (DOMAIN ReplyMemory \cup BookkeepingKeys) :
             result[k] = probe.memory[k]
       /\ \A k \in DOMAIN ReplyMemory \ BookkeepingKeys : result[k] = ReplyMemory[k]
       /\ result.lastRoute = probe.current_route
       /\ result.lastContext = analyze_page_context(probe.current_route, probe.page_context)
       /\ result.lastInteraction \in Timestamps

\* C21: on a successful remote resolution the result memory is the incoming
\* memory overlaid with the reply's memory and then with lastRoute,
\* lastContext and lastInteraction; every incoming key the reply does not
\* mention keeps its value, the reply's memory is not the whole record, and
\* the incoming memory is left as it was.
C21_ReplyMemoryMergedIntoCopy ==
    [][(probe.stage = "local" /\ RemoteSucceeded')
           => /\ OverlaidMemory'
              /\ probe.smart'.memory # ReplyMemory'
              /\ probe.memory' = probe.memory]_vars

C21_Witness ==
    /\ RemoteSucceeded
    /\ probe.remote = ReplyBookkeepingMemory
    /\ "lastSuggestedAction" \in DOMAIN probe.memory
    /\ probe.current_route = R_ROOT
    /\ probe.smart.memory.topic = "art"
    /\ probe.smart.memory.lastRoute = R_ROOT
    /\ probe.smart.memory.currentStep = "create_course"


\* The type of the analytics event of a request.
EventTypeOf(op) == IF op.kind = "turn" THEN "intent_processed" ELSE "command_processed"

\* The requests that are past their analytics step.
PastAnalytics == {t \in OpIds : ops[t].pc \in {"interaction", "done"}}

\* C22: while the analytics store accepts writes, every turn and every
\* control command that has returned has appended exactly one event, of type
\* intent_processed for a turn and command_processed for a command: with the
\* requests served one after the other, the t-th request's event is the t-th
\* row and there are no other rows.
C22_OneEventPerRequest ==
    /\ Len(voice_analytics) = Cardinality(PastAnalytics)
    /\ \A t \in OpIds :
          ops[t].pc = "done" =>
              /\ t <= Len(voice_analytics)
              /\ voice_analytics[t].event_type = EventTypeOf(ops[t])
              /\ voice_analytics[t].user_id = ops[t].user_id

\* No step modifies or removes an event appended earlier, and a step appends
\* at most one.
C22_EventsAppendOnly ==
    [][/\ Len(voice_analytics') \in {Len(voice_analytics), Len(voice_analytics) + 1}
       /\ \A i \in DOMAIN voice_analytics : voice_analytics'[i] = voice_analytics[i]]_vars

\* One event per request, for the requests that did not end in the except
\* branch of the turn endpoint.
C22_OneEventPerAnsweredRequest ==
    LET answered == {t \in OpIds : /\ ops[t].pc = "done"
                                   /\ ops[t].kind = "turn" => ops[t].response.intent # "error"}
        in_flight == {t \in OpIds : ops[t].pc = "interaction"}
    IN /\ Len(voice_analytics) = Cardinality(answered \cup in_flight)
       /\ \A i \in DOMAIN voice_analytics :
             \E t \in answered \cup in_flight :
                /\ voice_analytics[i].event_type = EventTypeOf(ops[t])
                /\ voice_analytics[i].user_id = ops[t].user_id


\* The resolver of turn t ran on the memory that was loaded for it: its result
\* is that of get_smart_openai_response on the loaded memory merged with the
\* request's, under the outcome of the completion call the turn met.
ResolvedOnLoadedMemory(op) ==
    /\ op.loaded # << >>
    /\ op.memory = MergeRequestMemory(op.loaded, op.request.memory)
    /\ \E now \in Timestamps :
          op.ai_result = get_smart_openai_response(op.request.utterance, op.memory,
                             op.request.currentRoute, op.request.pageContext, api_key,
                             IF op.remote = << >> THEN RemoteRaises ELSE op.remote, now)

\* Turn t returns its response in this step.
Responds(t) == ops[t].pc # "done" /\ ops'[t].pc = "done" /\ ops'[t].kind = "turn"

\* The steps of a turn that lead to its response are in the order load,
\* resolve, save, analytics, and RESPOND is terminal.
StepsInOrder(t) ==
    /\ ops[t].pc = "done" => ops'[t] = ops[t]
    /\ (ops'[t].kind = "turn" /\ ops'[t].pc \in {"save", "analytics", "interaction"})
          => ResolvedOnLoadedMemory(ops'[t])
    /\ (ops'[t].kind = "turn" /\ ops'[t].pc = "analytics") => ops'[t].saved # "no"
    /\ (ops'[t].kind = "turn" /\ ops'[t].pc = "interaction" /\ ops[t].pc # "interaction")
          => /\ ops[t].pc = "analytics"
             /\ ops[t].saved # "no"

\* C23: within one turn the memory is loaded before the resolver runs, the
\* save is attempted before the analytics event is emitted, both are attempted
\* before the response is returned, and nothing follows the response.
C23_TurnStepsInOrder ==
    [][\A t \in OpIds :
          /\ StepsInOrder(t)
          /\ Responds(t) => /\ ops[t].pc = "interaction"
                            /\ ops[t].saved # "no"]_vars

\* The same for the turns that return the response they built.
C23_AnsweredTurnStepsInOrder ==
    [][\A t \in OpIds :
          /\ StepsInOrder(t)
          /\ (Responds(t) /\ ops'[t].response.intent # "error")
                => /\ ops[t].pc = "interaction"
                   /\ ops[t].saved # "no"]_vars


\* ======================================================================
\* The onboarding endpoint (src/sensai-ai-main/src/api/db/voice.py): its
\* keyword fallback, the enhancer of the intent data, and POST /intent.
\* A confidence is a tag ("0.8"); the context of a request is a dict.

\* str.strip() for blanks
Strip(s) ==
    LET kept == {i \in DOMAIN s : s[i] # " "}
    IN IF kept = {} THEN << >>
       ELSE SubSeq(s, CHOOSE i \in kept : \A j \in kept : i <= j,
                      CHOOSE i \in kept : \A j \in kept : j <= i)

\* The keyword lists of _fallback_intent_recognition, in the order of its tests
SIGNUP_WORDS ==
    << <<"s", "i", "g", "n", " ", "u", "p">>,
       <<"s", "i", "g", "n", "u", "p">>,
       <<"r", "e", "g", "i", "s", "t", "e", "r">>,
       <<"c", "r", "e", "a", "t", "e", " ", "a", "c", "c", "o", "u", "n", "t">> >>
COURSE_WORDS ==
    << <<"c", "o", "u", "r", "s", "e">>,
       <<"j", "o", "i", "n">>,
       <<"e", "n", "r", "o", "l", "l">>,
       <<"c", "l", "a", "s", "s">> >>
ASSIGNMENT_WORDS ==
    << <<"s", "u", "b", "m", "i", "t">>,
       <<"a", "s", "s", "i", "g", "n", "m", "e", "n", "t">>,
       <<"h", "o", "m", "e", "w", "o", "r", "k">>,
       <<"t", "a", "s", "k">> >>
ONBOARDING_HELP_WORDS ==
    << <<"h", "e", "l", "p">>,
       <<"w", "h", "a", "t", " ", "c", "a", "n">>,
       <<"h", "o", "w", " ", "d", "o">> >>
READ_PAGE_PHRASES ==
    << <<"w", "h", "a", "t", " ", "d", "o", "e", "s", " ", "t", "h", "i", "s", " ", "p", "a", "g", "e", " ", "s", "a", "y">>,
       <<"r", "e", "a", "d", " ", "t", "h", "i", "s", " ", "p", "a", "g", "e">>,
       <<"r", "e", "a", "d", " ", "t", "h", "e", " ", "p", "a", "g", "e">>,
       <<"w", "h", "a", "t", " ", "d", "o", "e", "s", " ", "t", "h", "i", "s", " ", "s", "c", "r", "e", "e", "n", " ", "s", "a", "y">>,
       <<"r", "e", "a", "d", " ", "t", "h", "i", "s", " ", "s", "c", "r", "e", "e", "n">>,
       <<"r", "e", "a", "d", " ", "t", "h", "e", " ", "s", "c", "r", "e", "e", "n">>,
       <<"d", "e", "s", "c", "r", "i", "b", "e", " ", "t", "h", "i", "s", " ", "p", "a", "g", "e">>,
       <<"d", "e", "s", "c", "r", "i", "b", "e", " ", "t", "h", "i", "s", " ", "s", "c", "r", "e", "e", "n">>,
       <<"w", "h", "a", "t", "'", "s", " ", "o", "n", " ", "t", "h", "i", "s", " ", "p", "a", "g", "e">>,
       <<"w", "h", "a", "t", "'", "s", " ", "o", "n", " ", "t", "h", "i", "s", " ", "s", "c", "r", "e", "e", "n">>,
       <<"r", "e", "a", "d", " ", "t", "h", "e", " ", "i", "n", "s", "t", "r", "u", "c", "t", "i", "o", "n", "s">>,
       <<"r", "e", "a", "d", " ", "i", "n", "s", "t", "r", "u", "c", "t", "i", "o", "n", "s">>,
       <<"w", "h", "a", "t", " ", "d", "o", "e", "s", " ", "i", "t", " ", "s", "a", "y">>,
       <<"t", "e", "l", "l", " ", "m", "e", " ", "w", "h", "a", "t", " ", "i", "t", " ", "s", "a", "y", "s">>,
       <<"r", "e", "a", "d", " ", "t", "h", "i", "s">>,
       <<"r", "e", "a", "d", " ", "t", "h", "e", " ", "c", "o", "n", "t", "e", "n", "t">>,
       <<"w", "h", "a", "t", "'", "s", " ", "t", "h", "e", " ", "c", "o", "n", "t", "e", "n", "t">>,
       <<"s", "c", "a", "n", " ", "t", "h", "i", "s", " ", "p", "a", "g", "e">>,
       <<"a", "n", "a", "l", "y", "z", "e", " ", "t", "h", "i", "s", " ", "p", "a", "g", "e">>,
       <<"e", "x", "t", "r", "a", "c", "t", " ", "t", "h", "e", " ", "t", "e", "x", "t">>,
       <<"w", "h", "a", "t", " ", "t", "e", "x", "t", " ", "i", "s", " ", "h", "e", "r", "e">>,
       <<"e", "x", "p", "l", "a", "i", "n", " ", "t", "h", "i", "s", " ", "p", "a", "g", "e">>,
       <<"c", "a", "n", " ", "y", "o", "u", " ", "e", "x", "p", "l", "a", "i", "n", " ", "t", "h", "i", "s", " ", "p", "a", "g", "e">>,
       <<"e", "x", "p", "l", "a", "i", "n", " ", "t", "h", "i", "s", " ", "s", "c", "r", "e", "e", "n">>,
       <<"t", "e", "l", "l", " ", "m", "e", " ", "a", "b", "o", "u", "t", " ", "t", "h", "i", "s", " ", "p", "a", "g", "e">>,
       <<"w", "h", "a", "t", " ", "i", "s", " ", "t", "h", "i", "s", " ", "p", "a", "g", "e">>,
       <<"w", "h", "a", "t", " ", "i", "s", " ", "o", "n", " ", "t", "h", "i", "s", " ", "p", "a", "g", "e">>,
       <<"d", "e", "s", "c", "r", "i", "b", "e", " ", "w", "h", "a", "t", " ", "y", "o", "u", " ", "s", "e", "e">>,
       <<"w", "h", "a", "t", " ", "c", "a", "n", " ", "y", "o", "u", " ", "s", "e", "e">>,
       <<"s", "u", "m", "m", "a", "r", "y", " ", "o", "f", " ", "t", "h", "i", "s", " ", "p", "a", "g", "e">>,
       <<"p", "a", "g", "e", " ", "s", "u", "m", "m", "a", "r", "y">>,
       <<"c", "o", "n", "t", "e", "n", "t", " ", "s", "u", "m", "m", "a", "r", "y">>,
       <<"o", "v", "e", "r", "v", "i", "e", "w", " ", "o", "f", " ", "t", "h", "i", "s", " ", "p", "a", "g", "e">>,
       <<"w", "a", "l", "k", " ", "m", "e", " ", "t", "h", "r", "o", "u", "g", "h", " ", "t", "h", "i", "s", " ", "p", "a", "g", "e">>,
       <<"g", "u", "i", "d", "e", " ", "m", "e", " ", "t", "h", "r", "o", "u", "g", "h", " ", "t", "h", "i", "s", " ", "p", "a", "g", "e">>,
       <<"c", "a", "n", " ", "y", "o", "u", " ", "e", "x", "p", "l", "a", "i", "n", " ", "t", "h", "i", "s", " ", "p", "a", "g", "e", " ", "t", "o", " ", "m", "e">>,
       <<"e", "x", "p", "l", "a", "i", "n", " ", "t", "h", "i", "s", " ", "p", "a", "g", "e", " ", "t", "o", " ", "m", "e">> >>
FIND_ELEMENT_PHRASES ==
    << <<"w", "h", "a", "t", " ", "s", "h", "o", "u", "l", "d", " ", "i", " ", "c", "l", "i", "c", "k">>,
       <<"w", "h", "e", "r", "e", " ", "s", "h", "o", "u", "l", "d", " ", "i", " ", "c", "l", "i", "c", "k">>,
       <<"w", "h", "a", "t", " ", "b", "u", "t", "t", "o", "n", " ", "s", "h", "o", "u", "l", "d", " ", "i", " ", "c", "l", "i", "c", "k">>,
       <<"h", "o", "w", " ", "d", "o", " ", "i">>,
       <<"w", "h", "e", "r", "e", " ", "i", "s", " ", "t", "h", "e">>,
       <<"f", "i", "n", "d", " ", "t", "h", "e">>,
       <<"s", "h", "o", "w", " ", "m", "e", " ", "t", "h", "e">>,
       <<"w", "h", "e", "r", "e", " ", "c", "a", "n", " ", "i">>,
       <<"w", "h", "a", "t", " ", "s", "h", "o", "u", "l", "d", " ", "i", " ", "c", "l", "i", "c", "k", " ", "t", "o">>,
       <<"w", "h", "e", "r", "e", " ", "s", "h", "o", "u", "l", "d", " ", "i", " ", "c", "l", "i", "c", "k", " ", "t", "o">>,
       <<"h", "o", "w", " ", "c", "a", "n", " ", "i">>,
       <<"w", "h", "e", "r", "e", " ", "d", "o", " ", "i", " ", "c", "l", "i", "c", "k", " ", "t", "o">>,
       <<"w", "h", "a", "t", " ", "d", "o", " ", "i", " ", "c", "l", "i", "c", "k", " ", "t", "o">>,
       <<"w", "h", "i", "c", "h", " ", "b", "u", "t", "t", "o", "n">>,
       <<"w", "h", "i", "c", "h", " ", "b", "u", "t", "t", "o", "n", " ", "s", "h", "o", "u", "l", "d", " ", "i", " ", "c", "l", "i", "c", "k">>,
       <<"w", "h", "e", "r", "e", " ", "i", "s", " ", "t", "h", "e", " ", "b", "u", "t", "t", "o", "n">>,
       <<"f", "i", "n", "d", " ", "b", "u", "t", "t", "o", "n">>,
       <<"s", "h", "o", "w", " ", "m", "e", " ", "b", "u", "t", "t", "o", "n">>,
       <<"h", "i", "g", "h", "l", "i", "g", "h", "t", " ", "b", "u", "t", "t", "o", "n">>,
       <<"w", "h", "e", "r", "e", " ", "t", "o", " ", "c", "l", "i", "c", "k">>,
       <<"h", "o", "w", " ", "t", "o", " ", "a", "d", "d">>,
       <<"h", "o", "w", " ", "t", "o", " ", "c", "r", "e", "a", "t", "e">>,
       <<"h", "o", "w", " ", "t", "o", " ", "s", "u", "b", "m", "i", "t">>,
       <<"h", "o", "w", " ", "t", "o", " ", "j", "o", "i", "n">>,
       <<"w", "h", "e", "r", "e", " ", "t", "o", " ", "a", "d", "d">>,
       <<"w", "h", "e", "r", "e", " ", "t", "o", " ", "c", "r", "e", "a", "t", "e">>,
       <<"w", "h", "e", "r", "e", " ", "t", "o", " ", "s", "u", "b", "m", "i", "t">>,
       <<"w", "h", "e", "r", "e", " ", "t", "o", " ", "j", "o", "i", "n">> >>
ONBOARDING_STOP_WORDS ==
    << <<"s", "t", "o", "p">>,
       <<"q", "u", "i", "t">>,
       <<"e", "x", "i", "t">>,
       <<"d", "o", "n", "e">> >>

\* The if/elif chain of keyword tests; `context` is not read.
_fallback_intent_recognition(transcript, context) ==
    LET transcript_lower == Lower(transcript)
    IN
    IF AnyPhraseIn(SIGNUP_WORDS, transcript_lower) THEN
        [intent |-> "signup", confidence |-> "0.8",
         action |-> [type |-> "navigate", target |-> "/auth/signup",
                     message |-> <<"I'll help you create an account. Let me take you to the signup page.">>],
         next_step |-> "signup"]
    ELSE IF AnyPhraseIn(COURSE_WORDS, transcript_lower) THEN
        [intent |-> "join_course", confidence |-> "0.8",
         action |-> [type |-> "navigate", target |-> "/courses",
                     message |-> <<"Let me show you our available courses.">>],
         next_step |-> "join-course"]
    ELSE IF AnyPhraseIn(ASSIGNMENT_WORDS, transcript_lower) THEN
        [intent |-> "submit_assignment", confidence |-> "0.8",
         action |-> [type |-> "speak",
                     message |-> <<"I'll help you submit your assignment. First, make sure you're enrolled in a course.">>],
         next_step |-> "first-submission"]
    ELSE IF AnyPhraseIn(ONBOARDING_HELP_WORDS, transcript_lower) THEN
        [intent |-> "help", confidence |-> "0.9",
         action |-> [type |-> "speak",
                     message |-> <<"I can help you sign up for an account, join a course, or submit your first assignment. What would you like to do?">>],
         next_step |-> StrNone]
    ELSE IF AnyPhraseIn(READ_PAGE_PHRASES, transcript_lower) THEN
        [intent |-> "read_page", confidence |-> "0.9",
         action |-> [type |-> "speak",
                     message |-> <<"I'll analyze the current page content for you. Let me extract and summarize what's visible on this screen.">>],
         next_step |-> StrNone]
    ELSE IF AnyPhraseIn(FIND_ELEMENT_PHRASES, transcript_lower) THEN
        [intent |-> "find_element", confidence |-> "0.9",
         action |-> [type |-> "speak",
                     message |-> <<"Let me help you find the right button or element on this page. I'll analyze the available options and highlight what you're looking for.">>],
         next_step |-> StrNone]
    ELSE IF AnyPhraseIn(ONBOARDING_STOP_WORDS, transcript_lower) THEN
        [intent |-> "stop", confidence |-> "0.9",
         action |-> [type |-> "speak",
                     message |-> <<"Thanks for using voice guidance! You can always restart it from the Voice Guide button.">>],
         next_step |-> "idle"]
    ELSE
        [intent |-> "unknown", confidence |-> "0.3",
         action |-> [type |-> "speak",
                     message |-> <<"I'm not sure what you meant. Try saying 'help' to see what I can do, or say 'sign up', 'join course', or 'submit assignment'.">>],
         next_step |-> StrNone]

\* `intent_data` is a dict, or what json.loads gave in its place: a list
\* ([array |-> TRUE]), a string (JStr) or null.  setdefault fills only the
\* keys that are missing; intent_data["intent"] and action["message"] are
\* subscripts, so a missing key raises KeyError.
_enhance_intent_response(intent_data, context) ==
    IF intent_data = DictNone \/ intent_data = JStr \/ intent_data = [array |-> TRUE]
    THEN Raised("AttributeError")
    ELSE
        LET with_defaults == Merge([confidence |-> "0.5", action |-> << >>], intent_data)
            action == with_defaults.action
        IN
        IF action = DictNone \/ action = JStr THEN Raised("AttributeError")
        ELSE
            LET typed_action == Merge([type |-> "speak"], action)
            IN
            IF "intent" \notin DOMAIN with_defaults THEN Raised("KeyError")
            ELSE IF with_defaults.intent = "join_course" /\ ~Get(context, "userHasCourses", FALSE)
            THEN IF "message" \notin DOMAIN typed_action THEN Raised("KeyError")
                 ELSE IF typed_action.message = SeqNone THEN Raised("TypeError")
                 ELSE [with_defaults EXCEPT !.action =
                          [typed_action EXCEPT !.message =
                              @ \o <<" Since this will be your first course, I'll guide you through the process step by step.">>]]
            ELSE [with_defaults EXCEPT !.action = typed_action]

\* POST /intent of the onboarding router.  `remote` is the outcome of
\* get_openai_client() and client.chat.completions.create(): both are inside
\* the inner try, whose handlers call the fallback; _enhance_intent_response
\* is outside it, inside the outer try that answers with HTTPException(500).
process_voice_intent(request, remote) ==
    LET transcript == Strip(Lower(request.transcript))
        context == request.context
        fallback == _fallback_intent_recognition(transcript, context)
        intent_data ==
            IF remote.kind = "raise" THEN fallback
            ELSE IF remote.content = DictNone THEN fallback
            ELSE IF ~remote.content.json THEN fallback
            ELSE IF "object" \in DOMAIN remote.content.value
                 THEN remote.content.value.object
                 ELSE remote.content.value
        enhanced_response == _enhance_intent_response(intent_data, context)
    IN
    IF IsRaised(enhanced_response) THEN Raised("HTTPException")
    ELSE enhanced_response

\* Inputs of the onboarding endpoint
OnboardingTranscripts ==
    {<<"s", "t", "o", "p">>,
     <<"D", "o", "n", "e">>,
     <<"s", "t", "o", "p", " ", "t", "h", "e", " ", "c", "o", "u", "r", "s", "e">>,
     <<"I", " ", "a", "m", " ", "d", "o", "n", "e", " ", "w", "i", "t", "h", " ", "t", "h", "e", " ", "s", "i", "g", "n", " ", "u", "p">>,
     <<"q", "u", "i", "t", " ", "h", "o", "m", "e", "w", "o", "r", "k">>,
     <<"h", "e", "l", "p", " ", "m", "e", " ", "e", "x", "i", "t">>,
     <<"r", "e", "a", "d", " ", "t", "h", "i", "s", " ", "p", "a", "g", "e", " ", "a", "n", "d", " ", "s", "t", "o", "p">>,
     <<"f", "i", "n", "d", " ", "t", "h", "e", " ", "e", "x", "i", "t">>,
     <<" ", " ", "J", "o", "i", "n", " ", "C", "o", "u", "r", "s", "e", " ">>,
     <<"h", "e", "l", "l", "o">>}
OnboardingContexts ==
    {<< >>, [userHasCourses |-> FALSE], [userHasCourses |-> TRUE],
     [currentStep |-> "signup", userHasCourses |-> FALSE]}
OnboardingRemoteOutcomes ==
    {RemoteRaises, NotJson, NoContent, JsonArray,
     JsonObject(<< >>),
     JsonObject([intent |-> "signup", confidence |-> "0.9",
                 action |-> [type |-> "navigate", target |-> "/auth/signup",
                             message |-> <<"Let us sign you up.">>],
                 next_step |-> "signup"]),
     JsonObject([confidence |-> "0.9",
                 action |-> [type |-> "speak", message |-> <<"Hello.">>]]),
     JsonObject([intent |-> "join_course",
                 action |-> [type |-> "navigate", target |-> "/courses",
                             message |-> <<"Here are the courses.">>]]),
     JsonObject([intent |-> "join_course",
                 action |-> [type |-> "navigate", target |-> "/courses"]]),
     JsonObject([intent |-> "join_course"]),
     JsonObject([intent |-> "help", action |-> DictNone])}

\* The fallback and the endpoint applied to one request
OnboardInit ==
    /\ api_key \in ApiKeys
    /\ voice_memory = << >>
    /\ voice_analytics = << >>
    /\ voice_interactions = << >>
    /\ ops = [t \in OpIds |-> IdleOp]
    /\ last_writer = << >>
    /\ \E transcript \in OnboardingTranscripts, context \in OnboardingContexts :
        probe = [stage |-> "request", transcript |-> transcript, context |-> context,
                 fallback |-> << >>, remote |-> << >>, response |-> << >>]

Recognize ==
    /\ probe.stage = "request"
    /\ probe' = [probe EXCEPT !.stage = "recognized",
                              !.fallback = _fallback_intent_recognition(probe.transcript,
                                                                        probe.context)]
    /\ UNCHANGED <<api_key, voice_memory, voice_analytics, voice_interactions, ops, last_writer>>

OnboardIntent ==
    /\ probe.stage = "recognized"
    /\ \E remote \in OnboardingRemoteOutcomes :
        probe' = [probe EXCEPT
                     !.stage = "responded",
                     !.remote = remote,
                     !.response = process_voice_intent(
                                      [transcript |-> probe.transcript,
                                       context |-> probe.context], remote)]
    /\ UNCHANGED <<api_key, voice_memory, voice_analytics, voice_interactions, ops, last_writer>>

OnboardNext == Recognize \/ OnboardIntent
OnboardSpec == OnboardInit /\ [][OnboardNext]_vars

\* The transcript holds a word of the list, whatever its letter case.
HoldsWordOf(words, transcript) == AnyPhraseIn(words, Lower(transcript))

\* C24: _fallback_intent_recognition resolves an utterance that contains a
\* stop word (stop, quit, exit, done) to intent stop, even when it also
\* contains a keyword of the signup, course, assignment, help, read-page or
\* find-element family.
C24_StopWordWins ==
    (probe.stage \in {"recognized", "responded"}
        /\ HoldsWordOf(ONBOARDING_STOP_WORDS, probe.transcript))
        => probe.fallback.intent = "stop"

\* An utterance whose only keywords are stop words resolves to intent stop.
C24_StopWordAloneStops ==
    (/\ probe.stage \in {"recognized", "responded"}
     /\ HoldsWordOf(ONBOARDING_STOP_WORDS, probe.transcript)
     /\ \A words \in {SIGNUP_WORDS, COURSE_WORDS, ASSIGNMENT_WORDS, ONBOARDING_HELP_WORDS,
                      READ_PAGE_PHRASES, FIND_ELEMENT_PHRASES} :
           ~HoldsWordOf(words, probe.transcript))
        => probe.fallback.intent = "stop"


\* The completion service answered the onboarding request with a JSON text.
RepliedWithJson ==
    /\ probe.stage = "responded"
    /\ probe.remote.kind = "reply"
    /\ probe.remote.content # DictNone
    /\ probe.remote.content.json

\* The JSON value lacks fields of the reply schema: it is no object, or it
\* has no intent, or no action dict with a message.
LacksSchemaFields(value) ==
    \/ "object" \notin DOMAIN value
    \/ "intent" \notin DOMAIN value.object
    \/ "action" \notin DOMAIN value.object
    \/ value.object.action = DictNone
    \/ "message" \notin DOMAIN value.object.action

\* What the endpoint answers when the fallback resolves the request.
FallbackResponse ==
    _enhance_intent_response(
        _fallback_intent_recognition(Strip(Lower(probe.transcript)), probe.context),
        probe.context)

\* C25: a reply of the completion service that is valid JSON but lacks schema
\* fields is recovered by the deterministic fallback, and the caller gets no
\* HTTP error.
C25_IncompleteReplyRecovered ==
    (RepliedWithJson /\ LacksSchemaFields(probe.remote.content.value))
        => /\ ~IsRaised(probe.response)
           /\ probe.response = FallbackResponse

\* The caller gets an HTTP error only when the reply is JSON lacking schema
\* fields: replies with an intent and a message, replies that are no JSON and
\* failed calls are answered.
C25_CompleteOrNoReplyAnswered ==
    (probe.stage = "responded" /\ IsRaised(probe.response))
        => RepliedWithJson /\ LacksSchemaFields(probe.remote.content.value)


\* process_intent_with_context answered an account-creation request made on
\* the signup route.
SignupOnSignupRoute ==
    /\ probe.stage = "local"
    /\ ~IsRaised(probe.local)
    /\ probe.local.intent = "create_account"
    /\ probe.local.memory.lastContext.route_key = "signup"

FormCompleteText ==
    <<"Your form looks complete! You can now submit it to create your account.">>

\* C26: for an account-creation request on the signup route the resolver
\* says the form is complete and highlights signup_button only when the page
\* state is form_complete; it highlights email_field exactly when the state
\* is form_empty and password_field exactly when it is form_partial; when the
\* state is unknown it does not say the form is complete.
C26_FormCompleteOnlyWhenComplete ==
    SignupOnSignupRoute =>
        LET page_state == probe.local.memory.lastContext.page_state
            target == probe.local.action.target
        IN /\ (target = "signup_button" \/ probe.local.responseText = FormCompleteText)
                 => page_state = "form_complete"
           /\ target = "email_field" <=> page_state = "form_empty"
           /\ target = "password_field" <=> page_state = "form_partial"
           /\ page_state = "unknown" => probe.local.responseText # FormCompleteText

\* The same for the requests that carry page signals.
C26_WithSignalsFormStateDecides ==
    (SignupOnSignupRoute /\ probe.local.memory.lastContext.page_state # "unknown") =>
        LET page_state == probe.local.memory.lastContext.page_state
            target == probe.local.action.target
        IN /\ (target = "signup_button" \/ probe.local.responseText = FormCompleteText)
                 => page_state = "form_complete"
           /\ target = "email_field" <=> page_state = "form_empty"
           /\ target = "password_field" <=> page_state = "form_partial"
====
